---------------------------- MODULE Spec2Model ----------------------------
(***************************************************************************)
(* A model of open-review's progress streaming:                            *)
(*   - runReview (backend/src/agents/orchestrator.ts): the phase/activity  *)
(*     inferencer that turns engine messages into ProgressEvents;          *)
(*   - routes/reviews.ts: the job runner (startReviewProcess), the         *)
(*     broadcaster registry (reviewEmitters), the stream, status and rerun *)
(*     endpoints;                                                          *)
(*   - services/storage.ts: the persisted review metadata;                 *)
(*   - frontend ProgressPanel: the SSE client and its fallback polling.    *)
(*                                                                         *)
(* The specifications of the module: SpecReview (one run of the pipeline,  *)
(* message by message), SpecServer (the create and re-run requests and the *)
(* runs of one review id, interleaved at every await), SpecStream (a run   *)
(* and the stream connections to it), SpecClient (one mounted              *)
(* ProgressPanel, with its timers) and FairSpecClient (SpecClient with the *)
(* timers firing and status requests being answered).  Each leaves the     *)
(* other parts' variables untouched.                                       *)
(***************************************************************************)
EXTENDS Integers, Sequences, FiniteSets, TLC

VARIABLES
    orch,            \* the local state of one runReview call (SpecReview)
    meta,            \* the persisted ReviewMeta of the review id: status, error
    reviewEmitters,  \* the registry entry of the review id: a run's emitter or 0
    listeners,       \* per emitter, the "progress" listeners in attachment order
    emitted,         \* the events the latest step handed to an emitter, and whose
    conflict,        \* whether a re-run request was answered 409
    proc,            \* per request/run: position, the meta read, the error caught
    conn,            \* per stream connection: position, timers, what was written
    client,          \* one ProgressPanel (refs, state, EventSource, timers) in its ReviewDetail
    timer,           \* the server's timers: time left of each grace delay and attach poll
    tokens           \* two token accumulators and the usage objects added to them

serverVars == <<reviewEmitters, listeners, emitted, conflict, proc, conn>>
vars == <<orch, meta, reviewEmitters, listeners, emitted, conflict, proc, conn, client, timer, tokens>>

(***************************************************************************)
(* Bounds                                                                  *)
(***************************************************************************)
MaxCompleted == 2     \* tool results counted as completed explorers in one run
MaxTasks == 2         \* Task delegations (tool_use ids) of one run
MaxAdvance == 1       \* clock advances during one run

(***************************************************************************)
(* Program constants                                                       *)
(***************************************************************************)
ACTIVITY_THROTTLE_MS == 1000
USAGE_EMIT_INTERVAL_MS == 5000
StepMs == 1000        \* granularity of the modelled wall clock
StartMs == 10000      \* Date.now() when the run starts (any value >= 5000)

(***************************************************************************)
(* Values                                                                  *)
(***************************************************************************)
NoError == "<undefined>"
None == "<none>"

PHASE_ORDER == <<"understanding", "exploring", "analyzing", "synthesizing">>
Phases == {PHASE_ORDER[i] : i \in 1..4}
PhaseIdx(p) == CHOOSE i \in 1..4 : PHASE_ORDER[i] = p

AgentTypes == {"codebase-explorer", "senior-developer", "web-researcher"}

\* What the engine (or a collaborator) can throw: an Error with a message,
\* an Error with an empty message, or a value that is no Error.
Thrown == {[isError |-> TRUE, message |-> "boom"],
           [isError |-> TRUE, message |-> ""],
           [isError |-> FALSE, message |-> "-"]}
AgentFailed == [isError |-> TRUE, message |-> "Agent failed with subtype"]
NoThrow == [isError |-> FALSE, message |-> "<nothing thrown>"]

\* error instanceof Error ? error.message : "Unknown error"
ErrorMessage(e) == IF e.isError THEN e.message ELSE "Unknown error"

\* JavaScript truthiness of an optional string
Truthy(str) == str # NoError /\ str # ""

(***************************************************************************)
(* ProgressEvent                                                           *)
(***************************************************************************)
\* run is the run whose emitter carried the event (0: an event the stream
\* endpoint made up itself, or one not yet handed to an emitter), n its
\* position among the events emitted with it; t is its timestamp.
Ev(type) == [type |-> type, phase |-> None, percent |-> -1, status |-> None,
             message |-> NoError, agent |-> None, description |-> None,
             key |-> 0, t |-> 0, run |-> 0, n |-> 0]
PhaseEv(p) == [Ev("phase") EXCEPT !.phase = p]
ProgressEv(pct) == [Ev("progress") EXCEPT !.percent = pct]
SubagentEv(a, st) == [Ev("subagent") EXCEPT !.agent = a, !.status = st]
ActivityEv(a, k) == [Ev("activity") EXCEPT !.agent = a, !.key = k]
UsageEv == Ev("usage")
CompleteEv(st, m) == [Ev("complete") EXCEPT !.status = st, !.message = m]

(***************************************************************************)
(* runReview: the emit helpers.  A state s is the record of runReview's    *)
(* local variables; s.out collects what one step hands to onProgress.      *)
(***************************************************************************)
emit(s, ev) == [s EXCEPT !.out = Append(@, [ev EXCEPT !.t = s.now])]

emitPhase(s, phase) == emit([s EXCEPT !.currentPhase = phase], PhaseEv(phase))

ExploringPercent_Floor(completed, total) ==
    (10 * total + 50 * completed) \div total

\* Math.round(10 + 50 * (completed / total)) for total > 0
ExploringPercent(completed, total) ==
    (2 * (10 * total + 50 * completed) + total) \div (2 * total)

ProgressPercent_AnalyzingLow(s) ==
    CASE s.currentPhase = "understanding" -> 5
      [] s.currentPhase = "exploring" ->
            IF s.totalExplorers > 0
            THEN ExploringPercent(s.completedExplorers, s.totalExplorers)
            ELSE 15
      [] s.currentPhase = "analyzing" -> IF s.seniorDevCompleted THEN 85 ELSE 55
      [] s.currentPhase = "synthesizing" -> 92

\* lines 164-194: the percent of the current phase
ProgressPercent(s) ==
    CASE s.currentPhase = "understanding" -> 5
      [] s.currentPhase = "exploring" ->
            IF s.totalExplorers > 0
            THEN ExploringPercent(s.completedExplorers, s.totalExplorers)
            ELSE 15
      [] s.currentPhase = "analyzing" -> IF s.seniorDevCompleted THEN 85 ELSE 70
      [] s.currentPhase = "synthesizing" -> 92

emitProgress(s) == emit(s, ProgressEv(ProgressPercent(s)))

emitUsageIfDue_NoGate(s) ==
    emit([s EXCEPT !.lastUsageEmitTime = s.now], UsageEv)

\* lines 196-225
emitUsageIfDue(s) ==
    IF s.now - s.lastUsageEmitTime < USAGE_EMIT_INTERVAL_MS
    THEN s
    ELSE emit([s EXCEPT !.lastUsageEmitTime = s.now], UsageEv)

(***************************************************************************)
(* runReview: one content block of an assistant message.                   *)
(*   text blocks:  [kind |-> "text", nonEmpty]                             *)
(*   tool_use:     [kind |-> "tool_use", name, agent, detail]              *)
(* parent is message.parent_tool_use_id, 0 standing for null.  A Task      *)
(* block's id is the next unused tool_use id.                              *)
(***************************************************************************)
TextBlock(nonEmpty) ==
    [kind |-> "text", nonEmpty |-> nonEmpty, name |-> None, agent |-> None,
     detail |-> FALSE]
ToolUse(name, agent, detail) ==
    [kind |-> "tool_use", nonEmpty |-> FALSE, name |-> name, agent |-> agent,
     detail |-> detail]

AssistantBlocks ==
    {TextBlock(b) : b \in BOOLEAN}
    \cup {ToolUse("Task", a, FALSE) : a \in AgentTypes}
    \cup {ToolUse(n, None, d) : n \in {"Read", "Glob", "Bash"}, d \in BOOLEAN}

TaskCount(blocks) == Cardinality({i \in DOMAIN blocks : blocks[i].name = "Task"})

LeadText_BeforeResult(s, parent, block) ==
    IF block.kind = "text" /\ block.nonEmpty /\ parent = 0
       /\ s.seniorDevStarted /\ s.currentPhase # "synthesizing"
    THEN emitProgress(emitPhase(s, "synthesizing"))
    ELSE s

\* lines 286-295: lead agent text output
LeadText(s, parent, block) ==
    IF block.kind = "text" /\ block.nonEmpty /\ parent = 0
       /\ s.seniorDevCompleted /\ s.currentPhase # "synthesizing"
    THEN emitProgress(emitPhase(s, "synthesizing"))
    ELSE s

PhaseDetection_ExploringAnyPhase(s, agentType) ==
    IF agentType = "codebase-explorer"
    THEN emitPhase([s EXCEPT !.totalExplorers = @ + 1], "exploring")
    ELSE IF agentType = "senior-developer"
    THEN emitPhase([s EXCEPT !.seniorDevStarted = TRUE], "analyzing")
    ELSE s

\* lines 317-328: phase detection on a Task delegation
PhaseDetection(s, agentType) ==
    IF agentType = "codebase-explorer"
    THEN LET s1 == [s EXCEPT !.totalExplorers = @ + 1]
         IN  IF s1.currentPhase = "understanding"
             THEN emitPhase(s1, "exploring")
             ELSE s1
    ELSE IF agentType = "senior-developer"
    THEN emitPhase([s EXCEPT !.seniorDevStarted = TRUE], "analyzing")
    ELSE s

\* lines 298-336: Task tool invocation
TaskInvocation(s, block) ==
    IF block.kind = "tool_use" /\ block.name = "Task"
    THEN LET s1 == [s EXCEPT !.taskMap = Append(@, block.agent)]
             s2 == PhaseDetection(s1, block.agent)
         IN  emitProgress(emit(s2, SubagentEv(block.agent, "started")))
    ELSE s

\* toolName === "Read" && file_path, "Grep"/"Glob" && pattern
Eligible(block) == block.name \in {"Read", "Grep", "Glob"} /\ block.detail

SubagentActivity_NoThrottle(s, parent, block) ==
    IF block.kind = "tool_use" /\ parent # 0
    THEN LET s1 == [s EXCEPT !.activityThrottle[parent] = s.now]
             agentType == IF parent <= Len(s.taskMap)
                          THEN s.taskMap[parent] ELSE "unknown"
         IN  IF Eligible(block)
             THEN emit(s1, ActivityEv(agentType, parent))
             ELSE s1
    ELSE s

\* lines 339-371: subagent tool usage
SubagentActivity(s, parent, block) ==
    IF block.kind = "tool_use" /\ parent # 0
    THEN IF s.now - s.activityThrottle[parent] >= ACTIVITY_THROTTLE_MS
         THEN LET s1 == [s EXCEPT !.activityThrottle[parent] = s.now]
                  agentType == IF parent <= Len(s.taskMap)
                               THEN s.taskMap[parent] ELSE "unknown"
              IN  IF Eligible(block)
                  THEN emit(s1, ActivityEv(agentType, parent))
                  ELSE s1
         ELSE s
    ELSE s

ProcessBlock(s, parent, block) ==
    SubagentActivity(TaskInvocation(LeadText(s, parent, block), block),
                     parent, block)

RECURSIVE ProcessBlocks(_, _, _)
ProcessBlocks(s, parent, blocks) ==
    IF blocks = <<>> THEN s
    ELSE ProcessBlocks(ProcessBlock(s, parent, Head(blocks)), parent, Tail(blocks))

\* lines 259-377: an assistant message
AssistantMessage(s, parent, blocks) ==
    emitUsageIfDue(ProcessBlocks(s, parent, blocks))

\* lines 388-413: one tool_result block of a user message
ToolResult(s, toolUseId) ==
    IF toolUseId <= Len(s.taskMap)
    THEN LET agentType == s.taskMap[toolUseId]
             s1 == IF agentType = "codebase-explorer"
                   THEN [s EXCEPT !.completedExplorers = @ + 1]
                   ELSE IF agentType = "senior-developer"
                   THEN [s EXCEPT !.seniorDevCompleted = TRUE]
                   ELSE s
             s2 == emitProgress(emit(s1, SubagentEv(agentType, "completed")))
         IN  emitUsageIfDue([s2 EXCEPT !.lastUsageEmitTime = 0])
    ELSE s

RECURSIVE ToolResults(_, _)
ToolResults(s, ids) ==
    IF ids = <<>> THEN s
    ELSE ToolResults(ToolResult(s, Head(ids)), Tail(ids))

Catch_FallsThrough(s, e) ==
    [emit(emit(emit(s, CompleteEv("error", ErrorMessage(e))), ProgressEv(100)),
          CompleteEv("completed", NoError))
       EXCEPT !.pc = "returned", !.thrown = e]

\* lines 443-454: the catch block of runReview
Catch(s, e) ==
    [emit(s, CompleteEv("error", ErrorMessage(e)))
       EXCEPT !.pc = "threw", !.thrown = e]

\* a faulty variant: the final 100 percent is emitted after the completion
Finish_ProgressAfterComplete(s) ==
    [emit(emit(s, CompleteEv("completed", NoError)), ProgressEv(100))
       EXCEPT !.pc = "returned"]

\* lines 456-517: after the message loop
Finish(s) ==
    [emit(emit(s, ProgressEv(100)), CompleteEv("completed", NoError))
       EXCEPT !.pc = "returned"]

(***************************************************************************)
(* storage.ts: updateReviewStatus, the write applied to the record read.   *)
(***************************************************************************)
updateReviewStatus(m, status, error) ==
    [m EXCEPT !.status = status,
              !.error = IF Truthy(error) THEN error ELSE @]

(***************************************************************************)
(* reviews.ts: the state of the server for one review id.                  *)
(***************************************************************************)
MaxRuns == 2          \* requests that start a run: the create and the re-runs
MaxEvents == 1        \* events one run emits between its first and its last

Runs == 1..MaxRuns
\* what a collaborator of the job runner throws
Failure == [isError |-> TRUE, message |-> "boom"]
Clients == {"c1", "c2"}

NoMeta == [status |-> "absent", error |-> NoError]
Terminal(status) == status \in {"completed", "error"}

ProcIdle == [pc |-> "idle", local |-> NoMeta, err |-> NoThrow, events |-> 0]
NoEmit == [run |-> 0, evs |-> <<>>]
ConnIdle == [pc |-> "idle", local |-> NoMeta, currentEmitter |-> 0,
             pollInterval |-> FALSE, keepalive |-> FALSE, received |-> <<>>]

\* ProgressPanel 406-411, 487-490: the panel as it is mounted; a timer is the
\* time left until it fires, or NoTimer
NoTimer == -1
SSE_MAX_ERRORS == 3
POLL_INTERVAL_MS == 3000
COMPLETE_DELAY_MS == 1000
MaxInflight == 1      \* status requests awaiting their response
MAX_ACTIVITIES == 50
MaxSubtasks == 3      \* subtasks whose subagent events one stream delivers
MaxStamp == 52        \* activity events one stream delivers

Subtasks == 1..MaxSubtasks

\* what the stream has delivered to the panel so far: per subtask its latest
\* subagent event, and the number of activity events
NothingDelivered == [subtasks |-> [k \in Subtasks |-> "none"], activities |-> 0]

\* ProgressPanel 392-398: the phase list of a new panel
PanelPhases ==
    [p \in Phases |-> [status |-> IF p = "understanding" THEN "active" ELSE "pending",
                       message |-> NoError]]

ClientStart ==
    [mounted |-> TRUE, readyState |-> "CONNECTING",
     sseErrorCount |-> 0, sseConnected |-> FALSE, fallbackPolling |-> FALSE,
     interval |-> NoTimer, completeTimer |-> NoTimer, inflight |-> 0,
     last |-> "mount", waited |-> 0, polled |-> FALSE,
     completedBySse |-> FALSE, completedByPoll |-> FALSE,
     review |-> "pending", detailError |-> FALSE, fetching |-> FALSE,
     detailInterval |-> TRUE, detailInflight |-> <<>>,
     phases |-> PanelPhases, percent |-> 0, progressMessage |-> "Starting...",
     subagents |-> <<>>, activities |-> <<>>, delivered |-> NothingDelivered]

ClientAbsent == [ClientStart EXCEPT !.mounted = FALSE, !.readyState = "CLOSED",
                                    !.last = "none"]

GRACE_MS == 3000
ATTACH_POLL_MS == 500
MaxAgain == 1         \* finished requests that are followed by another re-run

\* no grace delay and no attach poll is running; seen tells, per connection,
\* whether an emitter was registered since its attach poll last looked; again
\* counts the requests that followed a finished one
TimerIdle ==
    [grace |-> [r \in Runs |-> NoTimer],
     poll |-> [c \in Clients |-> NoTimer],
     seen |-> [c \in Clients |-> FALSE],
     again |-> 0]

(***************************************************************************)
(* index.ts 64-79: token accounting.  An API usage object is a record of   *)
(* its four optional counters, Missing standing for an absent field, and   *)
(* defined tells whether the message carried a usage object at all.        *)
(***************************************************************************)
MaxTokens == 1        \* largest token count of one usage field
Missing == -1

emptyTokenUsage ==
    [inputTokens |-> 0, outputTokens |-> 0, cacheReadTokens |-> 0,
     cacheCreationTokens |-> 0]

\* x ?? d
Coalesce(x, d) == IF x = Missing THEN d ELSE x

addUsage_Assign(acc, apiUsage) ==
    IF ~apiUsage.defined THEN acc
    ELSE [inputTokens |-> Coalesce(apiUsage.input_tokens, acc.inputTokens),
          outputTokens |-> Coalesce(apiUsage.output_tokens, acc.outputTokens),
          cacheReadTokens |->
              Coalesce(apiUsage.cache_read_input_tokens, acc.cacheReadTokens),
          cacheCreationTokens |->
              Coalesce(apiUsage.cache_creation_input_tokens, acc.cacheCreationTokens)]

\* index.ts 69-79
addUsage(acc, apiUsage) ==
    IF ~apiUsage.defined THEN acc
    ELSE [inputTokens |-> acc.inputTokens + Coalesce(apiUsage.input_tokens, 0),
          outputTokens |-> acc.outputTokens + Coalesce(apiUsage.output_tokens, 0),
          cacheReadTokens |->
              acc.cacheReadTokens + Coalesce(apiUsage.cache_read_input_tokens, 0),
          cacheCreationTokens |->
              acc.cacheCreationTokens
                 + Coalesce(apiUsage.cache_creation_input_tokens, 0)]

Counts == {Missing} \cup 0..MaxTokens
NoUsage ==
    [defined |-> FALSE, input_tokens |-> Missing, output_tokens |-> Missing,
     cache_read_input_tokens |-> Missing, cache_creation_input_tokens |-> Missing]
ApiUsages ==
    {NoUsage} \cup
    [defined : {TRUE}, input_tokens : Counts, output_tokens : Counts,
     cache_read_input_tokens : Counts, cache_creation_input_tokens : Counts]

\* index.ts 146-147, 314: accumulators start empty
TokensIdle ==
    [first |-> NoUsage, second |-> NoUsage, start |-> emptyTokenUsage,
     fwd |-> emptyTokenUsage, rev |-> emptyTokenUsage, applied |-> 0]

ServerIdle ==
    /\ timer = TimerIdle
    /\ reviewEmitters = 0
    /\ listeners = [r \in Runs |-> <<>>]
    /\ emitted = NoEmit
    /\ conflict = FALSE
    /\ proc = [r \in Runs |-> ProcIdle]
    /\ conn = [c \in Clients |-> ConnIdle]

(***************************************************************************)
(* SpecReview: one call of runReview and the job runner's handling of its  *)
(* outcome.  The state after construction is the one in which the message  *)
(* loop starts: understanding was emitted with its progress event.         *)
(***************************************************************************)
TaskIds == 1..MaxTasks
ParentIds == 0..MaxTasks

\* The content arrays delivered: every single block, a lead message that
\* writes text and delegates, and a subagent message with two tool calls.
AssistantContents ==
    {<<b>> : b \in AssistantBlocks}
    \cup {<<TextBlock(TRUE), ToolUse("Task", a, FALSE)>> : a \in AgentTypes}
    \cup {<<ToolUse("Read", None, TRUE), ToolUse("Glob", None, TRUE)>>}

\* The tool_use ids of the tool_result blocks of one user message.
UserContents == {<<i>> : i \in TaskIds} \cup {<<1, 2>>}

OrchStart ==
    [pc |-> "running", advances |-> 0, now |-> StartMs,
     currentPhase |-> "understanding",
     totalExplorers |-> 0, completedExplorers |-> 0,
     seniorDevStarted |-> FALSE, seniorDevCompleted |-> FALSE,
     taskMap |-> <<>>,
     activityThrottle |-> [k \in TaskIds |-> 0],
     lastUsageEmitTime |-> 0,
     gotSuccess |-> FALSE,
     thrown |-> NoThrow,
     out |-> <<>>]

OrchIdle == [OrchStart EXCEPT !.pc = "idle"]

InitReview ==
    /\ orch = emitProgress(emitPhase(OrchStart, "understanding"))
    /\ meta = [status |-> "running", error |-> NoError]
    /\ ServerIdle
    /\ client = ClientAbsent
    /\ tokens = TokensIdle

\* The next message of the for-await loop is taken.  The engine's result
\* message closes its stream: nothing but the end of the stream (or a
\* failure) follows a successful result.
Receiving == orch.pc = "running" /\ ~orch.gotSuccess
Next1(s) == [s EXCEPT !.out = <<>>]

\* lines 253-256
SystemInit ==
    /\ Receiving
    /\ orch' = Next1(orch)
    /\ UNCHANGED <<meta, serverVars, client>>

Assistant ==
    /\ Receiving
    /\ \E parent \in ParentIds, blocks \in AssistantContents :
          /\ parent <= Len(orch.taskMap)
          /\ Len(orch.taskMap) + TaskCount(blocks) <= MaxTasks
          /\ orch' = AssistantMessage(Next1(orch), parent, blocks)
    /\ UNCHANGED <<meta, serverVars, client>>

User ==
    /\ Receiving
    /\ \E ids \in UserContents :
          /\ orch' = ToolResults(Next1(orch), ids)
          /\ orch'.completedExplorers <= MaxCompleted
    /\ UNCHANGED <<meta, serverVars, client>>

\* lines 424-433
ResultSuccess ==
    /\ Receiving
    /\ orch' = [Next1(orch) EXCEPT !.gotSuccess = TRUE]
    /\ UNCHANGED <<meta, serverVars, client>>

\* lines 434-440, caught at 443
ResultFailure ==
    /\ orch.pc = "running"
    /\ orch' = Catch(Next1(orch), AgentFailed)
    /\ UNCHANGED <<meta, serverVars, client>>

\* the engine's iterator rejects
EngineThrows ==
    /\ orch.pc = "running"
    /\ \E e \in Thrown : orch' = Catch([orch EXCEPT !.out = <<>>], e)
    /\ UNCHANGED <<meta, serverVars, client>>

\* the engine's iterator is done
StreamEnds ==
    /\ orch.pc = "running"
    /\ orch' = Finish([orch EXCEPT !.out = <<>>])
    /\ UNCHANGED <<meta, serverVars, client>>

\* time passes between two messages
Advance ==
    /\ orch.pc = "running"
    /\ orch.advances < MaxAdvance
    /\ orch' = [orch EXCEPT !.now = @ + StepMs, !.advances = @ + 1, !.out = <<>>]
    /\ UNCHANGED <<meta, serverVars, client>>

\* reviews.ts 397-400: runReview returned and the result is saved
RunnerCompleted ==
    /\ orch.pc = "returned"
    /\ orch' = [orch EXCEPT !.pc = "done_completed", !.out = <<>>]
    /\ meta' = updateReviewStatus(meta, "completed", NoError)
    /\ UNCHANGED <<serverVars, client>>

\* reviews.ts 397-411: saving the result throws
RunnerSaveFails ==
    /\ orch.pc = "returned"
    /\ \E e \in Thrown :
          /\ orch' = [orch EXCEPT !.pc = "done_save_error", !.out = <<>>, !.thrown = e]
          /\ meta' = updateReviewStatus(meta, "error", ErrorMessage(e))
    /\ UNCHANGED <<serverVars, client>>

\* reviews.ts 406-411: runReview threw
RunnerCatch ==
    /\ orch.pc = "threw"
    /\ orch' = [orch EXCEPT !.pc = "done_error", !.out = <<>>]
    /\ meta' = updateReviewStatus(meta, "error", ErrorMessage(orch.thrown))
    /\ UNCHANGED <<serverVars, client>>

NextReview ==
    /\ \/ SystemInit
       \/ Assistant
       \/ User
       \/ ResultSuccess
       \/ ResultFailure
       \/ EngineThrows
       \/ StreamEnds
       \/ Advance
       \/ RunnerCompleted
       \/ RunnerSaveFails
       \/ RunnerCatch
    /\ UNCHANGED <<timer, tokens>>

SpecReview == InitReview /\ [][NextReview]_vars

(***************************************************************************)
(* Properties of runReview (SpecReview)                                    *)
(***************************************************************************)
PhaseEvents(out) == SelectSeq(out, LAMBDA ev : ev.type = "phase")

NonDecreasing(ps) ==
    \A i \in 1..(Len(ps) - 1) : PhaseIdx(ps[i]) <= PhaseIdx(ps[i + 1])

PhasesOf(out) == [i \in DOMAIN PhaseEvents(out) |-> PhaseEvents(out)[i].phase]

\* C1: the phases carried by the emitted phase events, and currentPhase,
\* never decrease in the order understanding < exploring < analyzing <
\* synthesizing: each step's phase events continue the phase the step
\* started in without going back.
C1_PhasesNeverDecrease ==
    [][/\ NonDecreasing(<<orch.currentPhase>> \o PhasesOf(orch'.out))
       /\ PhaseIdx(orch.currentPhase) <= PhaseIdx(orch'.currentPhase)]_vars

\* the regression itself: analyzing is emitted while synthesizing is current
C1_Regressed ==
    /\ orch.currentPhase = "analyzing"
    /\ orch.seniorDevCompleted
    /\ \E i \in DOMAIN orch.out :
          orch.out[i].type = "phase" /\ orch.out[i].phase = "analyzing"
    /\ Cardinality({i \in DOMAIN orch.taskMap :
                       orch.taskMap[i] = "senior-developer"}) = 2

\* C7: when the stream ends after a successful result message, the step
\* emits exactly a progress event of 100 percent followed by a complete event
\* with status completed, and nothing is emitted afterwards.
C7_FinalProgressThenComplete ==
    /\ (orch.pc = "returned" /\ orch.gotSuccess) =>
          /\ Len(orch.out) = 2
          /\ orch.out[1].type = "progress" /\ orch.out[1].percent = 100
          /\ orch.out[2].type = "complete" /\ orch.out[2].status = "completed"
    /\ orch.pc \in {"done_completed", "done_save_error"} => orch.out = <<>>

C7_Witness == orch.pc = "returned" /\ orch.gotSuccess /\ Len(orch.taskMap) > 0

\* C8: when the engine throws or delivers a non-success result, runReview
\* emits a complete event with status error carrying the failure message (and
\* no complete event with status completed) and rethrows, and the job runner
\* persists status error with that same message.
C8_ErrorEmittedAndPersisted ==
    /\ orch.pc = "threw" =>
          /\ orch.out # <<>>
          /\ orch.out[Len(orch.out)] =
                [CompleteEv("error", ErrorMessage(orch.thrown)) EXCEPT !.t = orch.now]
          /\ \A i \in DOMAIN orch.out :
                ~(orch.out[i].type = "complete" /\ orch.out[i].status = "completed")
    /\ orch.pc = "done_error" =>
          /\ meta.status = "error"
          /\ meta.error = ErrorMessage(orch.thrown)

(***************************************************************************)
(* reviews.ts: EventEmitter operations on the listener list of an emitter  *)
(***************************************************************************)
Occurrences(ls, c) == Cardinality({i \in DOMAIN ls : ls[i] = c})

\* emitter.on("progress", onProgress)
on(ls, c) == Append(ls, c)

\* emitter.removeListener: the most recently added instance is removed
removeListener(ls, c) ==
    IF Occurrences(ls, c) = 0 THEN ls
    ELSE LET k == CHOOSE i \in DOMAIN ls :
                     ls[i] = c /\ \A j \in DOMAIN ls : ls[j] = c => j <= i
         IN  [i \in 1..(Len(ls) - 1) |-> IF i < k THEN ls[i] ELSE ls[i + 1]]

RECURSIVE Repeat(_, _)
Repeat(ev, n) == IF n = 0 THEN <<>> ELSE <<ev>> \o Repeat(ev, n - 1)

onProgress_Prepend(cn, ls, c, ev) ==
    IF cn[c].pc = "open"
    THEN [cn[c] EXCEPT !.received = Repeat(ev, Occurrences(ls, c)) \o @]
    ELSE cn[c]

\* reviews.ts 216-222: the stream listener writes the event to its response;
\* a connection that is gone receives nothing.
onProgress(cn, ls, c, ev) ==
    IF cn[c].pc = "open"
    THEN [cn[c] EXCEPT !.received = @ \o Repeat(ev, Occurrences(ls, c))]
    ELSE cn[c]

emitterEmit_StopAtFailure(cn, ls, ev) ==
    [c \in Clients |->
        IF \E i \in DOMAIN ls :
              /\ ls[i] = c
              /\ \A j \in 1..i : cn[ls[j]].pc = "open"
        THEN onProgress(cn, ls, c, ev)
        ELSE cn[c]]

\* reviews.ts 382-384: emitter.emit("progress", event), every listener in turn
emitterEmit(cn, ls, ev) == [c \in Clients |-> onProgress(cn, ls, c, ev)]

RECURSIVE emitAll(_, _, _)
emitAll(cn, ls, evs) ==
    IF evs = <<>> THEN cn
    ELSE emitAll(emitterEmit(cn, ls, Head(evs)), ls, Tail(evs))

\* run r hands evs to its onProgress callback
Publish(r, evs) ==
    LET out == [i \in DOMAIN evs |-> [evs[i] EXCEPT !.run = r, !.n = i]]
    IN  /\ emitted' = [run |-> r, evs |-> out]
        /\ conn' = emitAll(conn, listeners[r], out)

(***************************************************************************)
(* reviews.ts: POST / (create), POST /:id/rerun and startReviewProcess     *)
(***************************************************************************)
\* lines 347-355: the emitter is created and registered, the background task
\* runs up to its first await
startReviewProcess(r) ==
    /\ reviewEmitters' = r
    /\ listeners' = [listeners EXCEPT ![r] = <<>>]
    /\ proc' = [proc EXCEPT ![r].pc = "r_begin"]

\* lines 119-126: createReview writes the record with status pending
CreateReview ==
    /\ proc[1].pc = "idle"
    /\ meta = NoMeta
    /\ meta' = [status |-> "pending", error |-> NoError]
    /\ proc' = [proc EXCEPT ![1].pc = "c_created"]
    /\ emitted' = NoEmit
    /\ UNCHANGED <<orch, client, reviewEmitters, listeners, conn, conflict>>

\* lines 128-139: the uploads are written, then the run is started
CreateStart ==
    /\ proc[1].pc = "c_created"
    /\ startReviewProcess(1)
    /\ emitted' = NoEmit
    /\ UNCHANGED <<orch, client, meta, conn, conflict>>

RerunRequest_NoConflict(r) ==
    /\ proc[r].pc = "idle"
    /\ meta # NoMeta
    /\ proc' = [proc EXCEPT ![r].pc = "rr_upd_read"]
    /\ emitted' = NoEmit
    /\ UNCHANGED <<orch, client, meta, reviewEmitters, listeners, conn, conflict>>

\* lines 306-317: the record is read; a running review is a conflict
RerunRequest(r) ==
    /\ proc[r].pc = "idle"
    /\ meta # NoMeta
    /\ IF meta.status = "running"
       THEN conflict' = TRUE /\ UNCHANGED proc
       ELSE proc' = [proc EXCEPT ![r].pc = "rr_upd_read"] /\ UNCHANGED conflict
    /\ emitted' = NoEmit
    /\ UNCHANGED <<orch, client, meta, reviewEmitters, listeners, conn>>

\* line 317, storage.ts 86: updateReviewStatus reads the record
RerunUpdRead(r) ==
    /\ proc[r].pc = "rr_upd_read"
    /\ proc' = [proc EXCEPT ![r].pc = "rr_upd_write", ![r].local = meta]
    /\ emitted' = NoEmit
    /\ UNCHANGED <<orch, client, meta, reviewEmitters, listeners, conn, conflict>>

\* storage.ts 89-95: and writes it back with status pending
RerunUpdWrite(r) ==
    /\ proc[r].pc = "rr_upd_write"
    /\ meta' = updateReviewStatus(proc[r].local, "pending", NoError)
    /\ proc' = [proc EXCEPT ![r].pc = "rr_start", ![r].local = NoMeta]
    /\ emitted' = NoEmit
    /\ UNCHANGED <<orch, client, reviewEmitters, listeners, conn, conflict>>

\* lines 319-327
RerunStart(r) ==
    /\ proc[r].pc = "rr_start"
    /\ startReviewProcess(r)
    /\ emitted' = NoEmit
    /\ UNCHANGED <<orch, client, meta, conn, conflict>>

(***************************************************************************)
(* reviews.ts 353-419: the background task of run r, one step per await    *)
(***************************************************************************)
ReadMeta(r, from, to) ==
    /\ proc[r].pc = from
    /\ proc' = [proc EXCEPT ![r].pc = to, ![r].local = meta]
    /\ emitted' = NoEmit
    /\ UNCHANGED <<orch, client, meta, reviewEmitters, listeners, conn, conflict>>

\* line 355, storage.ts 86
RunRunningRead(r) == ReadMeta(r, "r_begin", "r_running_write")

\* line 355, storage.ts 89-95
RunRunningWrite(r) ==
    /\ proc[r].pc = "r_running_write"
    /\ meta' = updateReviewStatus(proc[r].local, "running", NoError)
    /\ proc' = [proc EXCEPT ![r].pc = "r_parse", ![r].local = NoMeta]
    /\ emitted' = NoEmit
    /\ UNCHANGED <<orch, client, reviewEmitters, listeners, conn, conflict>>

\* line 358: parseFile throws
RunParseFails(r) ==
    /\ proc[r].pc = "r_parse"
    /\ proc' = [proc EXCEPT ![r].pc = "r_catch", ![r].err = Failure]
    /\ emitted' = NoEmit
    /\ UNCHANGED <<orch, client, meta, reviewEmitters, listeners, conn, conflict>>

\* line 387, orchestrator 237-238: runReview starts and emits its first events
RunReviewStarts(r) ==
    /\ proc[r].pc = "r_parse"
    /\ Publish(r, <<PhaseEv("understanding"), ProgressEv(5)>>)
    /\ proc' = [proc EXCEPT ![r].pc = "r_review"]
    /\ UNCHANGED <<orch, client, meta, reviewEmitters, listeners, conflict>>

\* orchestrator 241-442: a message makes runReview emit an event
RunReviewEmits(r) ==
    /\ proc[r].pc = "r_review"
    /\ proc[r].events < MaxEvents
    /\ Publish(r, <<Ev("subagent")>>)
    /\ proc' = [proc EXCEPT ![r].events = @ + 1]
    /\ UNCHANGED <<orch, client, meta, reviewEmitters, listeners, conflict>>

\* orchestrator 443-454: runReview emits the error completion and rethrows
RunReviewThrows(r) ==
    /\ proc[r].pc = "r_review"
    /\ \E e \in {AgentFailed} :
          /\ Publish(r, <<CompleteEv("error", ErrorMessage(e))>>)
          /\ proc' = [proc EXCEPT ![r].pc = "r_catch", ![r].err = e, ![r].events = 0]
    /\ UNCHANGED <<orch, client, meta, reviewEmitters, listeners, conflict>>

\* orchestrator 507-516: runReview emits the completion and returns
RunReviewReturns(r) ==
    /\ proc[r].pc = "r_review"
    /\ Publish(r, <<ProgressEv(100), CompleteEv("completed", NoError)>>)
    /\ proc' = [proc EXCEPT ![r].pc = "r_save", ![r].events = 0]
    /\ UNCHANGED <<orch, client, meta, reviewEmitters, listeners, conflict>>

\* lines 398-399: saveReviewOutput or saveReviewUsage throws
RunSaveFails(r) ==
    /\ proc[r].pc = "r_save"
    /\ proc' = [proc EXCEPT ![r].pc = "r_catch", ![r].err = Failure]
    /\ emitted' = NoEmit
    /\ UNCHANGED <<orch, client, meta, reviewEmitters, listeners, conn, conflict>>

\* lines 398-399, storage.ts 105: the output is saved, saveReviewUsage reads
RunUsageRead(r) == ReadMeta(r, "r_save", "r_usage_write")

\* storage.ts 108-109: saveReviewUsage writes the record it read
RunUsageWrite(r) ==
    /\ proc[r].pc = "r_usage_write"
    /\ meta' = proc[r].local
    /\ proc' = [proc EXCEPT ![r].pc = "r_completed_read", ![r].local = NoMeta]
    /\ emitted' = NoEmit
    /\ UNCHANGED <<orch, client, reviewEmitters, listeners, conn, conflict>>

\* line 400, storage.ts 86
RunCompletedRead(r) == ReadMeta(r, "r_completed_read", "r_completed_write")

\* line 400, storage.ts 89-95; lines 412-418: finally arms the teardown timer
RunCompletedWrite(r) ==
    /\ proc[r].pc = "r_completed_write"
    /\ meta' = updateReviewStatus(proc[r].local, "completed", NoError)
    /\ proc' = [proc EXCEPT ![r].pc = "r_grace", ![r].local = NoMeta]
    /\ emitted' = NoEmit
    /\ UNCHANGED <<orch, client, reviewEmitters, listeners, conn, conflict>>

\* lines 406-409, storage.ts 86
RunErrorRead(r) == ReadMeta(r, "r_catch", "r_error_write")

\* lines 408-411, storage.ts 89-95; lines 412-418
RunErrorWrite(r) ==
    /\ proc[r].pc = "r_error_write"
    /\ meta' = updateReviewStatus(proc[r].local, "error", ErrorMessage(proc[r].err))
    /\ proc' = [proc EXCEPT ![r].pc = "r_grace", ![r].local = NoMeta, ![r].err = NoThrow]
    /\ emitted' = NoEmit
    /\ UNCHANGED <<orch, client, reviewEmitters, listeners, conn, conflict>>

\* lines 415-418: the 3000 ms timer fires
Teardown(r) ==
    /\ proc[r].pc = "r_grace"
    /\ reviewEmitters' = 0
    /\ listeners' = [listeners EXCEPT ![r] = <<>>]
    /\ proc' = [proc EXCEPT ![r].pc = "r_done"]
    /\ emitted' = NoEmit
    /\ UNCHANGED <<orch, client, meta, conn, conflict>>

(***************************************************************************)
(* reviews.ts 164-268: GET /:id/stream for connection c                    *)
(***************************************************************************)
\* line 168: the record is read (a missing record is answered 404)
StreamRequest(c) ==
    /\ conn[c].pc = "idle"
    /\ meta # NoMeta
    /\ conn' = [conn EXCEPT ![c].pc = "s_read", ![c].local = meta]
    /\ emitted' = NoEmit
    /\ UNCHANGED <<orch, client, meta, reviewEmitters, listeners, proc, conflict>>

StreamTerminal_AlwaysCompleted(cn) ==
    [cn EXCEPT
       !.pc = "ended",
       !.received = Append(@, CompleteEv("completed", NoError))]

\* lines 188-201: the review is already done
StreamTerminal(cn) ==
    [cn EXCEPT
       !.pc = "ended",
       !.received = Append(@, CompleteEv(cn.local.status,
                                 IF cn.local.status = "error"
                                 THEN cn.local.error ELSE NoError))]

\* lines 203-249: the waiting event, the subscription, the timers
StreamSubscribe(cn) ==
    IF reviewEmitters = 0
    THEN [cn EXCEPT !.pc = "open", !.local = NoMeta,
                    !.received = Append(@, PhaseEv("understanding")),
                    !.currentEmitter = 0,
                    !.pollInterval = TRUE,
                    !.keepalive = TRUE]
    ELSE [cn EXCEPT !.pc = "open", !.local = NoMeta,
                    !.currentEmitter = reviewEmitters,
                    !.keepalive = TRUE]

StreamSetup(c) ==
    /\ conn[c].pc = "s_read"
    /\ IF Terminal(conn[c].local.status)
       THEN /\ conn' = [conn EXCEPT ![c] = StreamTerminal(conn[c])]
            /\ UNCHANGED listeners
       ELSE /\ conn' = [conn EXCEPT ![c] = StreamSubscribe(conn[c])]
            /\ listeners' = IF reviewEmitters = 0 THEN listeners
                            ELSE [listeners EXCEPT ![reviewEmitters] = on(@, c)]
    /\ emitted' = NoEmit
    /\ UNCHANGED <<orch, client, meta, reviewEmitters, proc, conflict>>

\* lines 232-239: a 500 ms tick of the attach poll finds the emitter
StreamPoll(c) ==
    /\ conn[c].pc \in {"open", "broken"}
    /\ conn[c].pollInterval
    /\ reviewEmitters # 0
    /\ listeners' = [listeners EXCEPT ![reviewEmitters] = on(@, c)]
    /\ conn' = [conn EXCEPT ![c].pollInterval = FALSE]
    /\ emitted' = NoEmit
    /\ UNCHANGED <<orch, client, meta, reviewEmitters, proc, conflict>>

CloseListeners_RemoveAll(c) ==
    LET cur == conn[c].currentEmitter
    IN  IF cur # 0 THEN [listeners EXCEPT ![cur] = <<>>] ELSE listeners

\* lines 252-261: the client disconnects
CloseListeners(c) ==
    LET cur == conn[c].currentEmitter
        l1 == IF cur # 0 THEN [listeners EXCEPT ![cur] = removeListener(@, c)]
              ELSE listeners
    IN  IF reviewEmitters # 0 /\ reviewEmitters # cur
        THEN [l1 EXCEPT ![reviewEmitters] = removeListener(@, c)]
        ELSE l1

\* lines 217-221: the connection is gone and writes to it fail, the close
\* handler has not run yet
StreamBreaks(c) ==
    /\ conn[c].pc = "open"
    /\ conn' = [conn EXCEPT ![c].pc = "broken"]
    /\ emitted' = NoEmit
    /\ UNCHANGED <<orch, client, meta, reviewEmitters, listeners, proc, conflict>>

StreamClose(c) ==
    /\ conn[c].pc \in {"open", "broken"}
    /\ listeners' = CloseListeners(c)
    /\ conn' = [conn EXCEPT ![c].pc = "closed",
                            ![c].keepalive = FALSE,
                            ![c].pollInterval = FALSE]
    /\ emitted' = NoEmit
    /\ UNCHANGED <<orch, client, meta, reviewEmitters, proc, conflict>>

\* the steps of the background task of run r
RunStep(r) ==
    \/ RunRunningRead(r)
    \/ RunRunningWrite(r)
    \/ RunParseFails(r)
    \/ RunReviewStarts(r)
    \/ RunReviewEmits(r)
    \/ RunReviewThrows(r)
    \/ RunReviewReturns(r)
    \/ RunSaveFails(r)
    \/ RunUsageRead(r)
    \/ RunUsageWrite(r)
    \/ RunCompletedRead(r)
    \/ RunCompletedWrite(r)
    \/ RunErrorRead(r)
    \/ RunErrorWrite(r)
    \/ Teardown(r)

\* the steps of the re-run request that starts run r
RerunStep(r) ==
    \/ RerunRequest(r)
    \/ RerunUpdRead(r)
    \/ RerunUpdWrite(r)
    \/ RerunStart(r)

\* the steps of stream connection c
StreamStep(c) ==
    \/ StreamRequest(c)
    \/ StreamSetup(c)
    \/ StreamPoll(c)
    \/ StreamClose(c)

\* SpecServer: the create request, re-run requests and their runs, interleaved
NextServer ==
    /\ \/ CreateReview
       \/ CreateStart
       \/ \E r \in Runs : RerunStep(r)
       \/ \E r \in Runs : RunStep(r)
    /\ UNCHANGED <<timer, tokens>>

\* SpecStream: the run of a created review and the stream connections to it
NextStream ==
    /\ \/ CreateReview
       \/ CreateStart
       \/ RunStep(1)
       \/ \E c \in Clients : StreamStep(c)
    /\ UNCHANGED <<timer, tokens>>

\* SpecService: requests, runs and one stream connection of one review id
ServiceClients == {"c1"}

NextService ==
    /\ \/ CreateReview
       \/ CreateStart
       \/ \E r \in Runs : RerunStep(r)
       \/ \E r \in Runs : RunStep(r)
       \/ \E c \in ServiceClients : StreamStep(c)
    /\ UNCHANGED <<timer, tokens>>

InitServer ==
    /\ orch = OrchIdle
    /\ meta = NoMeta
    /\ ServerIdle
    /\ client = ClientAbsent
    /\ tokens = TokensIdle

SpecServer == InitServer /\ [][NextServer]_vars

SpecStream == InitServer /\ [][NextStream]_vars

SpecService == InitServer /\ [][NextService]_vars

\* SpecStreamFail: SpecStream with connections that break before they close
NextStreamFail ==
    \/ NextStream
    \/ (\E c \in Clients : StreamBreaks(c)) /\ UNCHANGED <<timer, tokens>>

SpecStreamFail == InitServer /\ [][NextStreamFail]_vars

(***************************************************************************)
(* ProgressPanel.tsx and api/client.ts: one mounted panel                  *)
(***************************************************************************)
\* ReviewDetail 212-215, 160-163: the panel's onComplete; the parent starts
\* to fetch the review (fetching: a getReview request is under way)
handleProgressComplete(cl) == [cl EXCEPT !.fetching = TRUE]

\* ProgressPanel 520-535: the fallback effect runs again when one of its
\* dependencies changed; its cleanup clears the interval, and it sets a new
\* one when the panel is polling and the stream is not connected
fallbackEffect(old, new) ==
    IF old.fallbackPolling = new.fallbackPolling /\ old.sseConnected = new.sseConnected
    THEN new
    ELSE [new EXCEPT !.interval = IF new.fallbackPolling /\ ~new.sseConnected
                                  THEN POLL_INTERVAL_MS ELSE NoTimer]

handlePhase_ResetLater(cl, ev) ==
    [cl EXCEPT !.phases =
        [p \in Phases |->
            IF p = ev.phase
            THEN [status |-> "active", message |-> ev.message]
            ELSE IF PhaseIdx(p) < PhaseIdx(ev.phase)
                 THEN [@[p] EXCEPT !.status = "completed"]
                 ELSE [@[p] EXCEPT !.status = "pending"]]]

\* ProgressPanel 420-432: a phase event
handlePhase(cl, ev) ==
    [cl EXCEPT !.phases =
        [p \in Phases |->
            IF p = ev.phase
            THEN [status |-> "active", message |-> ev.message]
            ELSE IF PhaseIdx(p) < PhaseIdx(ev.phase)
                 THEN [@[p] EXCEPT !.status = "completed"]
                 ELSE @[p]]]

SameSubagent(s, ev) == s.agentType = ev.agent /\ s.description = ev.description

\* ProgressPanel 433-449: a subagent event
handleSubagent(cl, ev) ==
    [cl EXCEPT !.subagents =
        IF \E i \in DOMAIN @ : SameSubagent(@[i], ev)
        THEN [i \in DOMAIN @ |->
                 IF SameSubagent(@[i], ev) THEN [@[i] EXCEPT !.status = ev.status]
                 ELSE @[i]]
        ELSE Append(@, [agentType |-> ev.agent, description |-> ev.description,
                        status |-> ev.status])]

handleActivity_KeepFirst(cl, ev) ==
    [cl EXCEPT !.activities =
        LET next == Append(@, [timestamp |-> ev.t, agentType |-> ev.agent])
        IN  IF Len(next) > MAX_ACTIVITIES
            THEN SubSeq(next, 1, MAX_ACTIVITIES)
            ELSE next]

\* ProgressPanel 450-461: an activity event
handleActivity(cl, ev) ==
    [cl EXCEPT !.activities =
        LET next == Append(@, [timestamp |-> ev.t, agentType |-> ev.agent])
        IN  IF Len(next) > MAX_ACTIVITIES
            THEN SubSeq(next, Len(next) - MAX_ACTIVITIES + 1, Len(next))
            ELSE next]

\* ProgressPanel 462-466: a progress event
handleProgress(cl, ev) ==
    [cl EXCEPT !.percent = ev.percent, !.progressMessage = ev.message]

handleComplete_AnyStatus(cl, ev) ==
    [cl EXCEPT !.percent = 100,
               !.progressMessage = "Review complete!",
               !.phases = [p \in Phases |-> [@[p] EXCEPT !.status = "completed"]],
               !.completeTimer = COMPLETE_DELAY_MS]

\* ProgressPanel 473-482: a complete event
handleComplete(cl, ev) ==
    LET shown == IF ev.status = "completed"
                 THEN [cl EXCEPT !.percent = 100,
                                 !.progressMessage = "Review complete!",
                                 !.phases = [p \in Phases |->
                                               [@[p] EXCEPT !.status = "completed"]]]
                 ELSE cl
    IN  [shown EXCEPT !.completeTimer = COMPLETE_DELAY_MS]

\* ProgressPanel 418-484: handleEvent (the token counts of a usage event are
\* not part of the panel's modelled state)
handleEvent(cl, ev) ==
    CASE ev.type = "phase" -> handlePhase(cl, ev)
      [] ev.type = "subagent" -> handleSubagent(cl, ev)
      [] ev.type = "activity" -> handleActivity(cl, ev)
      [] ev.type = "progress" -> handleProgress(cl, ev)
      [] ev.type = "complete" -> handleComplete(cl, ev)
      [] OTHER -> cl

\* ProgressPanel 492-496: the callback of a parsed event
onEvent(cl, ev) ==
    handleEvent([cl EXCEPT !.sseErrorCount = 0, !.sseConnected = TRUE,
                           !.last = "event"], ev)

onError_ClosedOnly(cl, closed) ==
    LET n == cl.sseErrorCount + 1
    IN  IF closed
        THEN [cl EXCEPT !.sseErrorCount = n, !.sseConnected = FALSE,
                        !.fallbackPolling = TRUE, !.readyState = "CLOSED",
                        !.last = "error"]
        ELSE [cl EXCEPT !.sseErrorCount = n, !.readyState = "CONNECTING",
                        !.last = "error"]

\* ProgressPanel 497-513: the error callback; closed tells whether the browser
\* gave the connection up (readyState CLOSED) or is reconnecting
onError(cl, closed) ==
    LET n == cl.sseErrorCount + 1
    IN  IF closed \/ n >= SSE_MAX_ERRORS
        THEN [cl EXCEPT !.sseErrorCount = n, !.sseConnected = FALSE,
                        !.fallbackPolling = TRUE, !.readyState = "CLOSED",
                        !.last = "error"]
        ELSE [cl EXCEPT !.sseErrorCount = n, !.readyState = "CONNECTING",
                        !.last = "error"]

\* the EventSource connected
SseOpen ==
    /\ client.readyState = "CONNECTING"
    /\ client' = [client EXCEPT !.readyState = "OPEN"]
    /\ UNCHANGED <<orch, meta, serverVars>>

\* client.ts 16-23: a message arrives, one of evs; one that does not parse is
\* ignored.  A complete event is sent once, by a run that has started.
Message(evs) ==
    /\ client.readyState = "OPEN"
    /\ \E parsed \in BOOLEAN, ev \in evs :
          /\ ev.type = "complete" =>
                /\ meta.status # "pending"
                /\ client.completeTimer = NoTimer
                /\ ~client.completedBySse
          /\ client' = IF parsed
                       THEN fallbackEffect(client, onEvent(client, ev))
                       ELSE [client EXCEPT !.last = "ignored"]
    /\ UNCHANGED <<orch, meta, serverVars>>

\* the events of a stream: progress, and the complete event of either outcome
StreamEvents ==
    {ProgressEv(50), CompleteEv("completed", "Review complete"),
     CompleteEv("error", "boom")}

SseMessage == Message(StreamEvents)

\* client.ts 25-27: the EventSource reports an error
SseError ==
    /\ client.readyState # "CLOSED"
    /\ \E closed \in BOOLEAN :
          client' = fallbackEffect(client, onError(client, closed))
    /\ UNCHANGED <<orch, meta, serverVars>>

\* ProgressPanel 523-525: the interval fires and a status request is sent
PollTick ==
    /\ client.interval = 0
    /\ client.inflight < MaxInflight
    /\ client' = [client EXCEPT !.interval = POLL_INTERVAL_MS, !.inflight = @ + 1,
                                !.polled = TRUE, !.last = "tick"]
    /\ UNCHANGED <<orch, meta, serverVars>>

PollResponse_CompletedOnly ==
    /\ client.inflight > 0
    /\ client' = IF meta.status = "completed"
                 THEN handleProgressComplete(
                         [client EXCEPT !.inflight = @ - 1, !.completedByPoll = TRUE])
                 ELSE [client EXCEPT !.inflight = @ - 1]
    /\ UNCHANGED <<orch, meta, serverVars>>

\* reviews.ts 272-284, ProgressPanel 525-528: the status is answered
PollResponse ==
    /\ client.inflight > 0
    /\ client' = IF Terminal(meta.status)
                 THEN handleProgressComplete(
                         [client EXCEPT !.inflight = @ - 1, !.completedByPoll = TRUE])
                 ELSE [client EXCEPT !.inflight = @ - 1]
    /\ UNCHANGED <<orch, meta, serverVars>>

\* ProgressPanel 529-531: the status request fails
PollFails ==
    /\ client.inflight > 0
    /\ client' = [client EXCEPT !.inflight = @ - 1]
    /\ UNCHANGED <<orch, meta, serverVars>>

\* ProgressPanel 480: the delayed onComplete of a complete event
CompleteTimerFires ==
    /\ client.completeTimer = 0
    /\ client' = handleProgressComplete(
                     [client EXCEPT !.completeTimer = NoTimer, !.completedBySse = TRUE])
    /\ UNCHANGED <<orch, meta, serverVars>>

Unmount_KeepsInterval ==
    /\ client.mounted
    /\ client' = [client EXCEPT !.mounted = FALSE, !.readyState = "CLOSED",
                                !.last = "unmount"]
    /\ UNCHANGED <<orch, meta, serverVars>>

\* ProgressPanel 516, 534; ReviewDetail 290-296: the panel is unmounted, the
\* cleanups close the EventSource and clear the interval
Unmount ==
    /\ client.mounted
    /\ client' = [client EXCEPT !.mounted = FALSE, !.readyState = "CLOSED",
                                !.interval = NoTimer, !.last = "unmount"]
    /\ UNCHANGED <<orch, meta, serverVars>>

ArmedTimers == {client.interval, client.completeTimer} \ {NoTimer}

Min(S) == CHOOSE x \in S : \A y \in S : x <= y

\* time passes, up to the next timer that is due
TimePasses ==
    /\ 0 \notin ArmedTimers
    /\ client.mounted \/ ArmedTimers # {}
    /\ LET d == Min(ArmedTimers \cup {StepMs})
           pass(t) == IF t = NoTimer THEN t ELSE t - d
       IN  client' = [client EXCEPT
                        !.interval = pass(@),
                        !.completeTimer = pass(@),
                        !.waited = IF client.fallbackPolling /\ ~client.polled
                                      /\ @ <= POLL_INTERVAL_MS
                                   THEN @ + d ELSE @]
    /\ UNCHANGED <<orch, meta, serverVars>>

\* reviews.ts 355, 400, 409: the run of the review writes its status
JobStatusChanges ==
    /\ \/ meta.status = "pending" /\ meta' = updateReviewStatus(meta, "running", NoError)
       \/ meta.status = "running" /\ meta' = updateReviewStatus(meta, "completed", NoError)
       \/ meta.status = "running" /\ meta' = updateReviewStatus(meta, "error", "boom")
    /\ UNCHANGED <<orch, serverVars, client>>

NextClient ==
    /\ \/ SseOpen
       \/ SseMessage
       \/ SseError
       \/ PollTick
       \/ PollResponse
       \/ PollFails
       \/ CompleteTimerFires
       \/ Unmount
       \/ TimePasses
       \/ JobStatusChanges
    /\ UNCHANGED <<timer, tokens>>

\* ReviewDetail 290-296: the panel is mounted for a pending or running review
InitClient ==
    /\ orch = OrchIdle
    /\ meta \in {[status |-> st, error |-> NoError] : st \in {"pending", "running"}}
    /\ ServerIdle
    /\ client = ClientStart
    /\ tokens = TokensIdle

SpecClient == InitClient /\ [][NextClient]_vars

\* timers fire, time passes, and status requests are answered again and again
FairSpecClient ==
    /\ SpecClient
    /\ WF_vars(PollTick /\ UNCHANGED <<timer, tokens>>)
    /\ WF_vars(CompleteTimerFires /\ UNCHANGED <<timer, tokens>>)
    /\ WF_vars(TimePasses /\ UNCHANGED <<timer, tokens>>)
    /\ SF_vars(PollResponse /\ UNCHANGED <<timer, tokens>>)

(***************************************************************************)
(* SpecTimed: SpecService with the server's timers.  A step of the service *)
(* arms the grace delay when a run's pipeline ends (reviews.ts 415-418,    *)
(* GRACE_MS) and the attach poll when a connection starts polling (232-239,*)
(* ATTACH_POLL_MS); the teardown and the poll's tick happen when their     *)
(* timer is due, and time does not pass a due timer.  The awaits of the    *)
(* handlers take any time.  A finished request can be followed by another  *)
(* re-run request.                                                         *)
(***************************************************************************)
\* the timers after a step of the service
TimerAfter ==
    [grace |-> [r \in Runs |->
                  IF proc'[r].pc # "r_grace" THEN NoTimer
                  ELSE IF proc[r].pc # "r_grace" THEN GRACE_MS
                  ELSE timer.grace[r]],
     poll |-> [c \in Clients |->
                  IF ~conn'[c].pollInterval THEN NoTimer
                  ELSE IF ~conn[c].pollInterval THEN ATTACH_POLL_MS
                  ELSE timer.poll[c]],
     seen |-> [c \in Clients |->
                  /\ conn'[c].pollInterval
                  /\ \/ timer.seen[c]
                     \/ reviewEmitters' # 0 /\ reviewEmitters' # reviewEmitters],
     again |-> timer.again]

\* reviews.ts 415-418, 232-239: the teardown and the attaching tick of a step
\* are those of timers that are due
TimersDue ==
    /\ \A r \in Runs :
          (proc[r].pc = "r_grace" /\ proc'[r].pc # "r_grace") => timer.grace[r] = 0
    /\ \A c \in Clients :
          (conn[c].pollInterval /\ ~conn'[c].pollInterval /\ conn'[c].pc # "closed")
             => timer.poll[c] = 0

\* what the timers add to a step of the service
Timed ==
    /\ TimersDue
    /\ timer' = TimerAfter
    /\ UNCHANGED tokens

\* reviews.ts 232-239: a tick of the attach poll finds no emitter
StreamPollMiss(c) ==
    /\ conn[c].pollInterval
    /\ timer.poll[c] = 0
    /\ reviewEmitters = 0
    /\ timer' = [timer EXCEPT !.poll[c] = ATTACH_POLL_MS, !.seen[c] = FALSE]
    /\ emitted' = NoEmit
    /\ UNCHANGED <<orch, client, meta, reviewEmitters, listeners, proc, conn, conflict, tokens>>

\* reviews.ts 304-306: the review is re-run once more
RerunAgain(r) ==
    /\ proc[r].pc = "r_done"
    /\ timer.again < MaxAgain
    /\ proc' = [proc EXCEPT ![r] = ProcIdle]
    /\ timer' = [timer EXCEPT !.again = @ + 1]
    /\ emitted' = NoEmit
    /\ UNCHANGED <<orch, client, meta, reviewEmitters, listeners, conn, conflict, tokens>>

ServerTimers ==
    ({timer.grace[r] : r \in Runs} \cup {timer.poll[c] : c \in Clients}) \ {NoTimer}

\* time passes up to the server's next due timer
ServerTimePasses ==
    /\ ServerTimers # {}
    /\ 0 \notin ServerTimers
    /\ LET d == Min(ServerTimers)
           pass(t) == IF t = NoTimer THEN t ELSE t - d
       IN  timer' = [timer EXCEPT !.grace = [r \in Runs |-> pass(timer.grace[r])],
                                  !.poll = [c \in Clients |-> pass(timer.poll[c])]]
    /\ emitted' = NoEmit
    /\ UNCHANGED <<orch, client, meta, reviewEmitters, listeners, proc, conn, conflict, tokens>>

NextTimed ==
    \/ CreateReview /\ Timed
    \/ CreateStart /\ Timed
    \/ \E r \in Runs : RerunStep(r) /\ Timed
    \/ \E r \in Runs : RunStep(r) /\ Timed
    \/ \E c \in ServiceClients : StreamStep(c) /\ Timed
    \/ \E c \in ServiceClients : StreamPollMiss(c)
    \/ \E r \in Runs : RerunAgain(r)
    \/ ServerTimePasses

SpecTimed == InitServer /\ [][NextTimed]_vars

(***************************************************************************)
(* Properties of the event emitters and the stream connections             *)
(***************************************************************************)
\* the events of a response that came through an emitter
Live(evs) == SelectSeq(evs, LAMBDA ev : ev.run # 0)

Attached(c, r) == Occurrences(listeners[r], c) > 0

\* C2: in every step, the events a connection has received through the
\* emitter grow by exactly the events the step emitted, in emission order, when
\* the connection's listener is attached to the emitting run's emitter, and do
\* not change otherwise: nothing is skipped, reordered or duplicated.
C2_ListenersReceiveInOrder ==
    [][\A c \in Clients :
          Live(conn'[c].received) =
             Live(conn[c].received) \o
                (IF emitted'.run # 0 /\ Attached(c, emitted'.run)
                 THEN emitted'.evs ELSE <<>>)]_vars

\* two listeners attached at different times, both have received events
C2_Witness ==
    \E c, d \in Clients :
       /\ Attached(c, 1) /\ Attached(d, 1)
       /\ Len(Live(conn[c].received)) > Len(Live(conn[d].received))
       /\ Len(Live(conn[d].received)) > 1

\* C4: a stream request that found the review completed or failed has
\* written exactly one complete event, with the persisted status and, for a
\* failed review, the persisted error message; the response is ended, no
\* listener is attached and no timer is running.
C4_TerminalStreamOneComplete ==
    \A c \in Clients :
       conn[c].pc = "ended" =>
          /\ Terminal(meta.status)
          /\ conn[c].received =
                <<CompleteEv(meta.status,
                             IF meta.status = "error" THEN meta.error ELSE NoError)>>
          /\ \A r \in Runs : ~Attached(c, r)
          /\ ~conn[c].pollInterval
          /\ ~conn[c].keepalive

C4_Witness ==
    \E c \in Clients :
       /\ conn[c].pc = "ended"
       /\ meta.status = "error"
       /\ meta.error = "boom"

(***************************************************************************)
(* Properties of the runs and re-runs of one review                        *)
(***************************************************************************)
\* run r is between startReviewProcess and the end of its pipeline
InProgress(r) ==
    proc[r].pc \in {"r_begin", "r_running_write", "r_parse", "r_review", "r_save",
                    "r_usage_write", "r_completed_read", "r_completed_write",
                    "r_catch", "r_error_write"}

\* C3: while a run is the one run in progress for the review, the registry
\* maps the review to that run's emitter.
C3_RegistryHoldsRunningEmitter ==
    \A r \in Runs :
       (InProgress(r) /\ \A q \in Runs \ {r} : ~InProgress(q)) =>
          reviewEmitters = r

\* the review is re-run during the grace period of the previous run
C3_RerunInGrace ==
    /\ proc[1].pc = "r_grace"
    /\ InProgress(2)
    /\ reviewEmitters = 2

StatusEdges ==
    { <<"absent", "pending">>, <<"pending", "running">>,
      <<"running", "completed">>, <<"running", "error">>,
      <<"completed", "pending">>, <<"error", "pending">> }

\* C5: every change of the persisted status follows pending -> running ->
\* completed or error, or resets a completed or failed review to pending, and
\* that reset is made by a re-run request only.
C5_StatusTransitions ==
    [][meta'.status # meta.status =>
          /\ <<meta.status, meta'.status>> \in StatusEdges
          /\ Terminal(meta.status) =>
                \E r \in Runs : proc[r].pc = "rr_upd_write" /\ proc'[r].pc = "rr_start"]_vars

\* C6: a re-run request on a completed or failed review is accepted, its
\* update leaves the status pending and it starts a new run registered under
\* the review; a re-run request is answered with a conflict only for a running
\* review, a running review is never accepted, and a rejected request changes
\* neither the record, the registry, the listeners nor any run.
C6_RerunAcceptedOrRejected ==
    [][\A r \in Runs :
          /\ (proc[r].pc = "idle" /\ proc'[r].pc # "idle") =>
                /\ proc'[r].pc \in {"rr_upd_read", "c_created"}
                /\ meta.status # "running"
          /\ (proc[r].pc = "rr_upd_write" /\ proc'[r].pc # "rr_upd_write") =>
                /\ proc'[r].pc = "rr_start"
                /\ meta'.status = "pending"
          /\ (proc[r].pc = "rr_start" /\ proc'[r].pc # "rr_start") =>
                /\ proc'[r].pc = "r_begin"
                /\ reviewEmitters' = r
                /\ meta' = meta
          /\ conflict' # conflict =>
                /\ meta.status = "running"
                /\ UNCHANGED <<meta, reviewEmitters, listeners, proc>>]_vars

\* a request was rejected, and a later one on the finished review started run 2
C6_Witness ==
    /\ conflict
    /\ proc[2].pc = "r_begin"
    /\ meta.status = "pending"
    /\ reviewEmitters = 2

(***************************************************************************)
(* Properties of the ProgressPanel                                         *)
(***************************************************************************)
\* C9: a parsed event leaves the error counter at zero; the counter
\* reaches SSE_MAX_ERRORS, or the EventSource of a mounted panel is closed,
\* only with the panel in fallback polling, the EventSource closed and the
\* polling interval set; and a mounted panel in fallback polling that has not
\* yet sent a status request has waited at most one polling interval.
C9_FallbackAfterErrors ==
    /\ client.last = "event" => client.sseErrorCount = 0
    /\ client.sseErrorCount <= SSE_MAX_ERRORS
    /\ (client.mounted /\
          (client.sseErrorCount >= SSE_MAX_ERRORS \/ client.readyState = "CLOSED")) =>
          /\ client.fallbackPolling
          /\ ~client.sseConnected
          /\ client.readyState = "CLOSED"
          /\ client.interval # NoTimer
    /\ (client.mounted /\ client.fallbackPolling /\ ~client.polled) =>
          client.waited <= POLL_INTERVAL_MS

\* three errors after an event, and the first status request one interval later
C9_Witness ==
    /\ client.mounted
    /\ client.sseErrorCount = SSE_MAX_ERRORS
    /\ client.fallbackPolling
    /\ client.polled
    /\ client.waited = POLL_INTERVAL_MS
    /\ client.last = "tick"

\* C10: a panel whose error counter reached SSE_MAX_ERRORS is in fallback
\* polling, and a panel in fallback polling whose review is completed or
\* failed eventually calls onComplete from a status response, unless it is
\* unmounted first.
C10_FallbackObservesTerminal ==
    /\ [](client.sseErrorCount >= SSE_MAX_ERRORS => client.fallbackPolling)
    /\ (client.mounted /\ client.fallbackPolling /\ Terminal(meta.status))
          ~> (client.completedByPoll \/ ~client.mounted)

\* no event was ever parsed, the review failed, polling alone saw it
C10_Witness ==
    /\ client.mounted
    /\ client.sseErrorCount = SSE_MAX_ERRORS
    /\ client.fallbackPolling
    /\ meta.status = "error"
    /\ client.completedByPoll
    /\ ~client.completedBySse

(***************************************************************************)
(* Properties of the stream connections under re-runs                      *)
(***************************************************************************)
\* C11: a connection that was closed has its listener on no emitter, and
\* neither its keepalive nor its attach poll is running.
C11_ClosedConnectionDetached ==
    \A c \in Clients :
       conn[c].pc = "closed" =>
          /\ \A r \in Runs : ~Attached(c, r)
          /\ ~conn[c].keepalive
          /\ ~conn[c].pollInterval

\* a connection that attached through the attach poll was closed after the
\* registry entry was replaced, and the run it listens to is still emitting
C11_ListenerLeft ==
    \E c \in Clients :
       /\ conn[c].pc = "closed"
       /\ conn[c].currentEmitter = 0
       /\ Attached(c, 1)
       /\ reviewEmitters = 2
       /\ proc[1].pc = "r_review"

\* C12: every step that emits events on a run's emitter appends exactly
\* those events, in order, to the response of every attached listener whose
\* connection takes writes, whatever the state of the listeners attached
\* before it, and the run goes on as it would have: it reaches its catch block
\* in such a step only when runReview itself emitted the error completion.
C12_FanOutSurvivesFailedWrite ==
    [][emitted'.run # 0 =>
          /\ \A c \in Clients :
                (Attached(c, emitted'.run) /\ conn[c].pc = "open") =>
                   conn'[c].received = conn[c].received \o emitted'.evs
          /\ \A c \in Clients :
                (Attached(c, emitted'.run) /\ conn[c].pc # "open") =>
                   conn'[c] = conn[c]
          /\ proc'[emitted'.run].pc \in {"r_review", "r_save", "r_catch"}
          /\ proc'[emitted'.run].pc = "r_catch" =>
                emitted'.evs[Len(emitted'.evs)].status = "error"]_vars

\* the first listener's write failed, the second listener got the event
C12_Witness ==
    /\ emitted.run = 1
    /\ Len(listeners[1]) = 2
    /\ conn[listeners[1][1]].pc = "broken"
    /\ conn[listeners[1][2]].pc = "open"
    /\ Len(conn[listeners[1][2]].received) >= Len(emitted.evs)
    /\ SubSeq(conn[listeners[1][2]].received,
              Len(conn[listeners[1][2]].received) - Len(emitted.evs) + 1,
              Len(conn[listeners[1][2]].received)) = emitted.evs
    /\ proc[1].pc = "r_review"

(***************************************************************************)
(* Properties of the attach poll                                           *)
(***************************************************************************)
\* the events of a response that the stream endpoint made up itself
Synthetic(evs) == SelectSeq(evs, LAMBDA ev : ev.run = 0)

\* C13: a connection set up without a registered emitter has been written
\* exactly one synthetic event, the waiting phase event, and polls without
\* being attached; and when an emitter was registered since the poll last
\* looked, the poll's next tick (within ATTACH_POLL_MS) does not come up empty:
\* it attaches the listener, once, and ends the poll.
C13_WaitingThenAttached ==
    /\ [](\A c \in Clients :
            conn[c].pc \in {"open", "broken", "closed"} =>
               /\ Synthetic(conn[c].received) =
                     IF conn[c].currentEmitter = 0
                     THEN <<PhaseEv("understanding")>> ELSE <<>>
               /\ conn[c].pollInterval =>
                     /\ conn[c].currentEmitter = 0
                     /\ \A r \in Runs : ~Attached(c, r))
    /\ [][\A c \in Clients :
            /\ (conn[c].pollInterval /\ \E r \in Runs : Attached(c, r)') =>
                  /\ reviewEmitters # 0
                  /\ Occurrences(listeners'[reviewEmitters], c) = 1
                  /\ ~conn'[c].pollInterval
            /\ (timer.poll[c] = 0 /\ timer'.poll[c] = ATTACH_POLL_MS) =>
                  ~timer.seen[c]]_vars

\* an emitter was registered while the connection polled, and the poll's tick
\* is due with no emitter registered
C13_RegisteredThenGone ==
    \E c \in Clients :
       /\ conn[c].pc = "open"
       /\ conn[c].pollInterval
       /\ timer.poll[c] = 0
       /\ timer.seen[c]
       /\ reviewEmitters = 0
       /\ \E r \in Runs : InProgress(r)

(***************************************************************************)
(* Frame of the stream endpoint                                            *)
(***************************************************************************)
\* the listeners of emitter r that are not connection c's, in their order
Others(ls, c) == SelectSeq(ls, LAMBDA d : d # c)

\* connection c takes a step: its request, its setup, its attach or its end
ConnectionStep(c) == conn'[c] # conn[c] /\ emitted'.run = 0

\* C14: a step of a stream connection (the request, the subscription, the
\* attach or the disconnect) leaves the persisted record, the registry, every
\* run's position and state, runReview's state and every other connection
\* with its listeners unchanged.
C14_StreamStepsFrame ==
    [][\A c \in Clients :
          ConnectionStep(c) =>
             /\ meta' = meta
             /\ reviewEmitters' = reviewEmitters
             /\ proc' = proc
             /\ orch' = orch
             /\ \A d \in Clients \ {c} : conn'[d] = conn[d]
             /\ \A r \in Runs : Others(listeners'[r], c) = Others(listeners[r], c)]_vars

\* one connection was closed while another stays attached to the running run
C14_Witness ==
    \E c, d \in Clients :
       /\ conn[c].pc = "closed"
       /\ conn[c].currentEmitter = 1
       /\ conn[d].pc = "open"
       /\ Attached(d, 1)
       /\ proc[1].pc = "r_review"
       /\ meta.status = "running"

(***************************************************************************)
(* Properties of runReview's throttles and counters                        *)
(***************************************************************************)
\* the activity events of a step for the subtask with tool_use id k
ActivitiesOf(out, k) ==
    SelectSeq(out, LAMBDA ev : ev.type = "activity" /\ ev.key = k)

\* C15: activityThrottle[k] is never before the latest activity event of
\* subtask k: a step emits at most one activity event for k, only when at
\* least ACTIVITY_THROTTLE_MS have passed since activityThrottle[k], and then
\* sets activityThrottle[k] to the event's time; activityThrottle[k] never goes
\* back.  So two activity events of k are at least ACTIVITY_THROTTLE_MS apart,
\* and a tool call inside the window leaves no event, in its step or later.
C15_ActivityThrottled ==
    [][\A k \in TaskIds :
          /\ Len(ActivitiesOf(orch'.out, k)) <= 1
          /\ orch'.activityThrottle[k] >= orch.activityThrottle[k]
          /\ \A i \in DOMAIN ActivitiesOf(orch'.out, k) :
                /\ ActivitiesOf(orch'.out, k)[i].t - orch.activityThrottle[k]
                      >= ACTIVITY_THROTTLE_MS
                /\ orch'.activityThrottle[k] = ActivitiesOf(orch'.out, k)[i].t]_vars

\* a second activity event of subtask 1, one throttle interval after the first
C15_Witness ==
    /\ Len(ActivitiesOf(orch.out, 1)) = 1
    /\ orch.now = StartMs + StepMs
    /\ orch.activityThrottle[1] = orch.now
    /\ orch.advances = 1

\* ---------------------------------------------------------------------
\* C16: the number of completed explorers never exceeds the number of
\* launched explorers, whatever the engine sends, a result for the same
\* tool_use id delivered more than once included.
C16_CompletedWithinTotal == orch.completedExplorers <= orch.totalExplorers

\* one explorer launched, its result counted twice
C16_CountedTwice ==
    /\ orch.totalExplorers = 1
    /\ orch.completedExplorers = 2

\* ---------------------------------------------------------------------
\* C17: every progress event carries a percent in 0..100, whatever the
\* engine sends.
C17_PercentInRange ==
    \A i \in DOMAIN orch.out :
        orch.out[i].type = "progress" => orch.out[i].percent \in 0..100

\* a progress event computed in the exploring phase after the only
\* explorer's result was counted twice
C17_Overshoot ==
    /\ orch.currentPhase = "exploring"
    /\ orch.totalExplorers = 1
    /\ orch.completedExplorers = 2
    /\ \E i \in DOMAIN orch.out :
          orch.out[i].type = "progress" /\ orch.out[i].percent = 110

\* ---------------------------------------------------------------------
\* C18: once the panel is unmounted its EventSource is closed and its
\* fallback interval is cleared, and from then on no step delivers a
\* stream event to the panel or starts a status request.
C18_UnmountedIsQuiet ==
    [][~client.mounted =>
          /\ client.readyState = "CLOSED" /\ client'.readyState = "CLOSED"
          /\ client.interval = NoTimer /\ client'.interval = NoTimer
          /\ client'.last = client.last
          /\ client'.sseErrorCount = client.sseErrorCount
          /\ client'.sseConnected = client.sseConnected
          /\ client'.inflight <= client.inflight]_vars

\* the panel was polling, with an armed interval and a request in flight,
\* when it was unmounted
C18_Witness ==
    /\ ~client.mounted
    /\ client.fallbackPolling
    /\ client.polled
    /\ client.last = "unmount"
    /\ client.inflight = 1
    /\ client.interval = NoTimer

(***************************************************************************)
(* SpecUsage: addUsage applied to two usage objects.  fwd receives them as *)
(* the messages carry them, rev in the opposite order; both start from the *)
(* same accumulator, empty or already holding counts.                      *)
(***************************************************************************)
StartUsages ==
    {emptyTokenUsage,
     [inputTokens |-> 1, outputTokens |-> 2, cacheReadTokens |-> 3,
      cacheCreationTokens |-> 4]}

InitUsage ==
    /\ orch = OrchIdle
    /\ meta = NoMeta
    /\ ServerIdle
    /\ client = ClientAbsent
    /\ \E u1 \in ApiUsages, u2 \in ApiUsages, acc \in StartUsages :
          tokens = [first |-> u1, second |-> u2, start |-> acc,
                    fwd |-> acc, rev |-> acc, applied |-> 0]

\* index.ts 269: the usage of the first assistant message is added
AddFirst ==
    /\ tokens.applied = 0
    /\ tokens' = [tokens EXCEPT !.fwd = addUsage(@, tokens.first),
                                !.rev = addUsage(@, tokens.second),
                                !.applied = 1]
    /\ UNCHANGED <<orch, meta, serverVars, client, timer>>

\* index.ts 269: the usage of the second assistant message is added
AddSecond ==
    /\ tokens.applied = 1
    /\ tokens' = [tokens EXCEPT !.fwd = addUsage(@, tokens.second),
                                !.rev = addUsage(@, tokens.first),
                                !.applied = 2]
    /\ UNCHANGED <<orch, meta, serverVars, client, timer>>

NextUsage ==
    \/ AddFirst
    \/ AddSecond

SpecUsage == InitUsage /\ [][NextUsage]_vars

\* ---------------------------------------------------------------------
\* C19: adding two usage objects to an accumulator gives the same four
\* counters in either order, each the start value plus the two fields
\* with an absent field (or an absent usage object) counting as zero.
Field(u, f) == IF u.defined THEN Coalesce(u[f], 0) ELSE 0

C19_AddUsageOrderIndependent ==
    tokens.applied = 2 =>
        /\ tokens.fwd = tokens.rev
        /\ tokens.fwd.inputTokens = tokens.start.inputTokens
              + Field(tokens.first, "input_tokens") + Field(tokens.second, "input_tokens")
        /\ tokens.fwd.outputTokens = tokens.start.outputTokens
              + Field(tokens.first, "output_tokens") + Field(tokens.second, "output_tokens")
        /\ tokens.fwd.cacheReadTokens = tokens.start.cacheReadTokens
              + Field(tokens.first, "cache_read_input_tokens")
              + Field(tokens.second, "cache_read_input_tokens")
        /\ tokens.fwd.cacheCreationTokens = tokens.start.cacheCreationTokens
              + Field(tokens.first, "cache_creation_input_tokens")
              + Field(tokens.second, "cache_creation_input_tokens")

\* two different usage objects, a field absent in one and counted in the
\* other, added to an accumulator that already holds counts
C19_Witness ==
    /\ tokens.applied = 2
    /\ tokens.start.inputTokens = 1
    /\ tokens.first.defined /\ tokens.second.defined
    /\ tokens.first.input_tokens = Missing
    /\ tokens.second.input_tokens = 1
    /\ tokens.first.output_tokens = 1
    /\ tokens.second.output_tokens = Missing
    /\ tokens.fwd = tokens.rev
    /\ tokens.fwd.inputTokens = 2

(***************************************************************************)
(* SpecGate: the message loop of runReview with a clock that passes the    *)
(* usage interval between two messages.                                    *)
(***************************************************************************)
\* the time after which a usage event is due again passes
AdvanceInterval ==
    /\ orch.pc = "running"
    /\ orch.advances < MaxAdvance
    /\ orch' = [orch EXCEPT !.now = @ + USAGE_EMIT_INTERVAL_MS, !.advances = @ + 1,
                            !.out = <<>>]
    /\ UNCHANGED <<meta, serverVars, client>>

NextGate ==
    /\ \/ Assistant
       \/ User
       \/ AdvanceInterval
    /\ UNCHANGED <<timer, tokens>>

SpecGate == InitReview /\ [][NextGate]_vars

\* ---------------------------------------------------------------------
\* C20: a usage event is emitted at least USAGE_EMIT_INTERVAL_MS after the
\* usage event before it, unless it is the forced one that follows the
\* completion of a subagent; every usage event, a forced one included,
\* becomes the time the gate counts from, and nothing else moves the gate.
IsUsage(out, i) == out[i].type = "usage"

\* the usage event follows a subagent's completed event and its progress event
Forced(out, i) ==
    /\ i >= 3
    /\ out[i - 2].type = "subagent" /\ out[i - 2].status = "completed"
    /\ out[i - 1].type = "progress"

\* time of the usage event before out[i]: the latest one of the same step,
\* or the gate's time before the step
UsageBefore(out, i, gate) ==
    IF \E j \in 1..(i - 1) : IsUsage(out, j)
    THEN out[CHOOSE j \in 1..(i - 1) :
                /\ IsUsage(out, j)
                /\ \A k \in (j + 1)..(i - 1) : ~IsUsage(out, k)].t
    ELSE gate

C20_UsageGated ==
    [][/\ \A i \in DOMAIN orch'.out :
             IsUsage(orch'.out, i) =>
                /\ \/ Forced(orch'.out, i)
                   \/ orch'.out[i].t - UsageBefore(orch'.out, i, orch.lastUsageEmitTime)
                         >= USAGE_EMIT_INTERVAL_MS
                /\ orch'.lastUsageEmitTime = orch'.out[i].t
       /\ (\A i \in DOMAIN orch'.out : ~IsUsage(orch'.out, i))
             => orch'.lastUsageEmitTime = orch.lastUsageEmitTime]_vars

\* an assistant message that launches nothing emits a usage event exactly
\* one interval after the usage event of the message that launched a task
C20_Witness ==
    /\ orch.now = StartMs + USAGE_EMIT_INTERVAL_MS
    /\ orch.advances = 1
    /\ Len(orch.taskMap) >= 1
    /\ \A i \in DOMAIN orch.out : orch.out[i].type # "subagent"
    /\ \E i \in DOMAIN orch.out : IsUsage(orch.out, i) /\ ~Forced(orch.out, i)
    /\ orch.lastUsageEmitTime = orch.now

\* ---------------------------------------------------------------------
\* C21: at most one run of the review is in progress at any time, whatever
\* the interleaving of the create request, the re-run requests and the runs.
C21_OneRunInProgress == Cardinality({r \in Runs : InProgress(r)}) <= 1

\* a re-run was accepted while the created review was still pending: both
\* runs are started and neither has written its status yet
C21_TwoRuns ==
    /\ proc[1].pc = "r_begin"
    /\ proc[2].pc = "r_begin"
    /\ meta.status = "pending"

\* ---------------------------------------------------------------------
\* C22: a run reaches the end of its pipeline only after it has published a
\* complete event on its emitter: the step that takes the run into the catch
\* block publishes one, unless runReview had already returned (and so had
\* published it); the step in which runReview returns publishes one too.
HasComplete(evs) == \E i \in DOMAIN evs : evs[i].type = "complete"

AfterReturn == {"r_save", "r_usage_write", "r_completed_read", "r_completed_write"}

C22_CompletePublishedBeforeEnd ==
    [][\A r \in Runs :
          /\ (proc'[r].pc = "r_catch" /\ proc[r].pc # "r_catch"
                /\ proc[r].pc \notin AfterReturn)
                => (emitted'.run = r /\ HasComplete(emitted'.evs))
          /\ (proc'[r].pc = "r_save" /\ proc[r].pc # "r_save")
                => (emitted'.run = r /\ HasComplete(emitted'.evs))]_vars

\* the run failed before runReview was called and is about to be torn down;
\* a listener attached since the review was pending has received nothing
C22_EndedSilently ==
    /\ proc[1].pc = "r_grace"
    /\ meta = [status |-> "error", error |-> "boom"]
    /\ \E c \in Clients :
          /\ conn[c].pc = "open"
          /\ conn[c].currentEmitter = 1
          /\ Attached(c, 1)
          /\ conn[c].received = <<>>

\* ---------------------------------------------------------------------
\* C23: once the run has persisted its terminal status, every complete event
\* a connection received from the run carries that status; a run that
\* published completed has not persisted error.
C23_CompleteMatchesPersisted ==
    proc[1].pc \in {"r_grace", "r_done"} =>
       \A c \in Clients : \A i \in DOMAIN conn[c].received :
          (conn[c].received[i].type = "complete" /\ conn[c].received[i].run = 1)
             => conn[c].received[i].status = meta.status

\* a connection received the run's completed event and the run then
\* persisted error
C23_CompletedThenError ==
    /\ proc[1].pc = "r_grace"
    /\ meta.status = "error"
    /\ \E c \in Clients : \E i \in DOMAIN conn[c].received :
          /\ conn[c].received[i].type = "complete"
          /\ conn[c].received[i].run = 1
          /\ conn[c].received[i].status = "completed"

(***************************************************************************)
(* SpecPhase: the message loop of runReview with the clock standing still: *)
(* the messages arrive within the same millisecond.                        *)
(***************************************************************************)
NextPhase ==
    /\ \/ Assistant
       \/ User
    /\ UNCHANGED <<timer, tokens>>

SpecPhase == InitReview /\ [][NextPhase]_vars

\* ---------------------------------------------------------------------
\* C24: events of a step enter synthesizing only when a senior-developer
\* result has arrived; and an assistant message enters it exactly when it
\* is the lead's, holds a non-empty text block that is reached with the
\* phase not synthesizing, and a senior-developer result had arrived.
EntersSynthesizing(out) ==
    \E i \in DOMAIN out : out[i].type = "phase" /\ out[i].phase = "synthesizing"

\* the phase in which block i of the message is reached
PhaseAt(s, parent, blocks, i) ==
    ProcessBlocks(s, parent, SubSeq(blocks, 1, i - 1)).currentPhase

C24_SynthesizingExactlyOnLeadText ==
    /\ EntersSynthesizing(orch.out) => orch.seniorDevCompleted
    /\ Receiving =>
          \A parent \in ParentIds, blocks \in AssistantContents :
             EntersSynthesizing(AssistantMessage(Next1(orch), parent, blocks).out)
                <=> /\ parent = 0
                    /\ orch.seniorDevCompleted
                    /\ \E i \in DOMAIN blocks :
                          /\ blocks[i].kind = "text" /\ blocks[i].nonEmpty
                          /\ PhaseAt(orch, parent, blocks, i) # "synthesizing"

\* the lead wrote text after the senior developer's result
C24_Witness ==
    /\ EntersSynthesizing(orch.out)
    /\ orch.currentPhase = "synthesizing"
    /\ orch.seniorDevCompleted
    /\ orch.pc = "running"

\* ---------------------------------------------------------------------
\* C25: a step of runReview emits at most one complete event and nothing
\* after it; the step that emits it ends the run, and no later step emits
\* anything.
Completes(out) == {i \in DOMAIN out : out[i].type = "complete"}

C25_OneCompleteThenSilence ==
    [][/\ Cardinality(Completes(orch'.out)) <= 1
       /\ \A i \in Completes(orch'.out) : i = Len(orch'.out)
       /\ Completes(orch'.out) # {} => (orch.pc = "running" /\ orch'.pc # "running")
       /\ orch.pc # "running" => orch'.out = <<>>]_vars

\* the engine failed after a task had been delegated, the error completion
\* was emitted and the job runner has handled the rejection since
C25_Witness ==
    /\ orch.pc = "done_error"
    /\ orch.out = <<>>
    /\ Len(orch.taskMap) > 0
    /\ meta.status = "error"

\* ---------------------------------------------------------------------
\* C26: runReview emits a complete event with status completed only in a
\* run that received a result message with subtype success.
C26_CompletedOnlyAfterSuccess ==
    (\E i \in DOMAIN orch.out :
        orch.out[i].type = "complete" /\ orch.out[i].status = "completed")
       => orch.gotSuccess

\* the engine's stream ended without a result message and runReview
\* returned with the completed event
C26_CompletedWithoutResult ==
    /\ orch.pc = "returned"
    /\ ~orch.gotSuccess
    /\ orch.out # <<>>
    /\ orch.out[Len(orch.out)].type = "complete"
    /\ orch.out[Len(orch.out)].status = "completed"

\* ---------------------------------------------------------------------
\* C27: in a run whose first delegation to a senior developer comes before
\* any delegation to a codebase explorer, no phase event names exploring and
\* the phase is never exploring, explorers delegated later included; the
\* delegation to the senior developer emits analyzing, so from understanding
\* the phase events go directly to analyzing.
\* (taskMap lists the delegated agent types in the order of delegation.)
ExplorerFirst(taskMap) ==
    \E i \in DOMAIN taskMap :
       /\ taskMap[i] = "codebase-explorer"
       /\ \A j \in 1..(i - 1) : taskMap[j] # "senior-developer"

C27_NoExploringAfterDirectAnalysis ==
    /\ (\E i \in DOMAIN orch.out :
           orch.out[i].type = "phase" /\ orch.out[i].phase = "exploring")
          => ExplorerFirst(orch.taskMap)
    /\ orch.currentPhase = "exploring" => ExplorerFirst(orch.taskMap)
    /\ \A i \in DOMAIN orch.out :
          (/\ orch.out[i].type = "subagent"
           /\ orch.out[i].agent = "senior-developer"
           /\ orch.out[i].status = "started")
             => /\ i > 1
                /\ orch.out[i - 1].type = "phase"
                /\ orch.out[i - 1].phase = "analyzing"

\* a codebase explorer is delegated after the senior developer
C27_Witness ==
    /\ orch.taskMap = <<"senior-developer", "codebase-explorer">>
    /\ orch.totalExplorers = 1
    /\ orch.currentPhase = "analyzing"
    /\ \E i \in DOMAIN orch.out :
          /\ orch.out[i].type = "subagent"
          /\ orch.out[i].agent = "codebase-explorer"
          /\ orch.out[i].status = "started"

(***************************************************************************)
(* SpecExplore: the message loop of runReview fed with delegations by the  *)
(* lead and with tool results only, one block per message, for up to       *)
(* MaxExplorers delegations.                                               *)
(***************************************************************************)
MaxExplorers == 3     \* delegations, and counted explorer results, of one run

\* lines 298-336: the lead delegates a task
ExploreDelegate ==
    /\ Receiving
    /\ Len(orch.taskMap) < MaxExplorers
    /\ \E a \in {"codebase-explorer", "senior-developer"} :
          orch' = AssistantMessage(Next1(orch), 0, <<ToolUse("Task", a, FALSE)>>)
    /\ UNCHANGED <<meta, serverVars, client>>

\* lines 380-418: the result of a task comes back
ExploreResult ==
    /\ Receiving
    /\ \E id \in 1..MaxExplorers :
          /\ orch' = ToolResults(Next1(orch), <<id>>)
          /\ orch'.completedExplorers <= MaxExplorers
    /\ UNCHANGED <<meta, serverVars, client>>

NextExplore ==
    /\ \/ ExploreDelegate
       \/ ExploreResult
    /\ UNCHANGED <<timer, tokens>>

SpecExplore == InitReview /\ [][NextExplore]_vars

\* ---------------------------------------------------------------------
\* C28: a progress event emitted in the exploring phase carries
\* 10 + 50 * completedExplorers / totalExplorers rounded to the nearest
\* integer (halves up), or 15 when no explorer was delegated; with 2 of 3
\* explorers completed that is 43, with 3 of 3 it is 60.
\* (p is x rounded for x = n / d when 2dp <= 2n + d < 2d(p + 1).)
Rounds(p, n, d) == 2 * d * p <= 2 * n + d /\ 2 * n + d < 2 * d * (p + 1)

C28_ExploringPercent ==
    orch.currentPhase = "exploring" =>
       \A i \in DOMAIN orch.out :
          orch.out[i].type = "progress" =>
             /\ orch.totalExplorers > 0 =>
                   Rounds(orch.out[i].percent,
                          10 * orch.totalExplorers + 50 * orch.completedExplorers,
                          orch.totalExplorers)
             /\ orch.totalExplorers = 0 => orch.out[i].percent = 15
             /\ (orch.totalExplorers = 3 /\ orch.completedExplorers = 2)
                   => orch.out[i].percent = 43
             /\ (orch.totalExplorers = 3 /\ orch.completedExplorers = 3)
                   => orch.out[i].percent = 60

\* the third of three explorers completed
C28_Witness ==
    /\ orch.currentPhase = "exploring"
    /\ orch.totalExplorers = 3
    /\ orch.completedExplorers = 3
    /\ \E i \in DOMAIN orch.out :
          /\ i > 1
          /\ orch.out[i].type = "progress" /\ orch.out[i].percent = 60
          /\ orch.out[i - 1].type = "subagent" /\ orch.out[i - 1].status = "completed"

\* ---------------------------------------------------------------------
\* C29: the step that enters analyzing from exploring emits a progress
\* event of 70 percent (85 when a senior developer's result had arrived
\* before); it is lower than the progress event before it only in a run
\* whose completedExplorers exceeds totalExplorers, and such runs exist: the
\* witness is the state reached when one of two explorers reports three
\* times, the other not at all, and the senior developer is delegated then.
ProgressOf(out) == SelectSeq(out, LAMBDA ev : ev.type = "progress")

EntersAnalyzing(out) ==
    \E i \in DOMAIN out : out[i].type = "phase" /\ out[i].phase = "analyzing"

Quiet == \A r \in Runs : proc[r].pc \in {"idle", "r_done"}

C30_AttachPollEnds ==
    [][\A c \in Clients :
          (/\ conn[c].pc = "open"
           /\ conn[c].pollInterval
           /\ timer.poll[c] = 0
           /\ reviewEmitters = 0
           /\ Terminal(meta.status)
           /\ Quiet
           /\ conn'[c] # conn[c] \/ timer'.poll[c] # timer.poll[c])
             => ~conn'[c].pollInterval \/ conn'[c].pc = "closed"]_vars

\* the client is connected and polls, the tick found nothing and the next
\* one is armed, while the review has failed or completed and every run of
\* it is torn down
C30_PollsOn ==
    \E c \in Clients :
       /\ conn[c].pc = "open"
       /\ conn[c].pollInterval
       /\ timer.poll[c] = ATTACH_POLL_MS
       /\ ~timer.seen[c]
       /\ reviewEmitters = 0
       /\ Terminal(meta.status)
       /\ \A r \in Runs : proc[r].pc = "r_done"

\* ---------------------------------------------------------------------
\* C36: the persisted record of the review, which the status endpoint
\* answers with, carries an error message only while its status is error.
C36_ErrorOnlyWhileError == Truthy(meta.error) => meta.status = "error"

\* the first run failed, the review was re-run, and the second run has
\* written completed: the record still carries the first run's message
C36_CompletedWithError ==
    /\ meta.status = "completed"
    /\ Truthy(meta.error)
    /\ proc[1].pc = "r_done"
    /\ proc[2].pc \in {"r_grace", "r_done"}

\* ---------------------------------------------------------------------
\* C37: a tool invocation of a subtask that is not eligible (not Read, Grep
\* or Glob, or without its detail field) emits no activity event and leaves
\* the throttle timestamps as they are, so that it cannot hide an eligible
\* invocation that follows it within ACTIVITY_THROTTLE_MS.
C37_IneligibleLeavesThrottle ==
    Receiving =>
       \A parent \in TaskIds, block \in AssistantBlocks :
          (/\ parent <= Len(orch.taskMap)
           /\ block.kind = "tool_use"
           /\ block.name # "Task"
           /\ ~Eligible(block)) =>
             LET s == AssistantMessage(Next1(orch), parent, <<block>>)
             IN  /\ ActivitiesOf(s.out, parent) = <<>>
                 /\ s.activityThrottle = orch.activityThrottle

\* the first message after the usage interval had passed was an ineligible
\* invocation of subtask 1: it emitted the usage event that was due and no
\* activity event, the throttle timestamp of subtask 1 is the time of that
\* message, and a Read of subtask 1 with its file_path is dropped now
C37_TimestampMoved ==
    /\ Receiving
    /\ orch.advances = 1
    /\ Len(orch.out) = 1
    /\ orch.out[1].type = "usage"
    /\ orch.activityThrottle[1] = orch.now
    /\ ActivitiesOf(AssistantMessage(Next1(orch), 1,
                                     <<ToolUse("Read", None, TRUE)>>).out, 1) = <<>>

(***************************************************************************)
(* SpecDetail: ReviewDetail.tsx with the ProgressPanel it renders.  The    *)
(* parent holds the review it fetched last (review: its status), shows the *)
(* panel while that review is pending or running, polls the status itself  *)
(* and fetches the review again when the status changed or the panel       *)
(* called onComplete.  Its interval fires at any time while it is set.     *)
(***************************************************************************)
\* ReviewDetail 225-233, 291-296: the ProgressPanel is part of what is rendered
Shown(cl) == cl.review \in {"pending", "running"} /\ ~cl.detailError

\* the panel is unmounted (ProgressPanel 516, 534: the cleanups) or a new one
\* is mounted (391-411, 487-490) when what is rendered changed
render(old, new) ==
    IF old.mounted /\ ~Shown(new)
    THEN [new EXCEPT !.mounted = FALSE, !.readyState = "CLOSED",
                     !.interval = NoTimer, !.last = "unmount"]
    ELSE IF ~old.mounted /\ Shown(new)
    THEN [new EXCEPT !.mounted = TRUE, !.readyState = "CONNECTING",
                     !.sseErrorCount = 0, !.sseConnected = FALSE,
                     !.fallbackPolling = FALSE, !.interval = NoTimer,
                     !.last = "mount", !.waited = 0, !.polled = FALSE,
                     !.completedBySse = FALSE, !.completedByPoll = FALSE,
                     !.phases = PanelPhases, !.percent = 0,
                     !.progressMessage = "Starting...",
                     !.subagents = <<>>, !.activities = <<>>,
                     !.delivered = NothingDelivered]
    ELSE new

RemoveAt(seq, i) == [j \in 1..(Len(seq) - 1) |-> IF j < i THEN seq[j] ELSE seq[j + 1]]

\* ReviewDetail 162-164, 179-197: getReview answered; setReview replaces the
\* review, so the polling effect runs again
FetchResolves ==
    /\ client.fetching
    /\ client' = render(client,
                        [client EXCEPT !.fetching = FALSE,
                                       !.review = meta.status,
                                       !.detailError = FALSE,
                                       !.detailInterval = ~Terminal(meta.status)])
    /\ UNCHANGED <<orch, meta, serverVars>>

\* ReviewDetail 165-166: getReview failed
FetchFails ==
    /\ client.fetching
    /\ client' = render(client, [client EXCEPT !.fetching = FALSE,
                                               !.detailError = TRUE])
    /\ UNCHANGED <<orch, meta, serverVars>>

\* ReviewDetail 184-186: the parent's interval fires; the callback keeps the
\* review of the render that set the interval
DetailTick ==
    /\ client.detailInterval
    /\ Len(client.detailInflight) < MaxInflight
    /\ client' = [client EXCEPT !.detailInflight = Append(@, client.review)]
    /\ UNCHANGED <<orch, meta, serverVars>>

DetailResponse_WhenSame ==
    /\ \E i \in DOMAIN client.detailInflight :
          client' = [client EXCEPT
                       !.detailInflight = RemoveAt(@, i),
                       !.fetching = @ \/ meta.status = client.detailInflight[i]]
    /\ UNCHANGED <<orch, meta, serverVars>>

\* ReviewDetail 186-190: the status is answered
DetailResponse ==
    /\ \E i \in DOMAIN client.detailInflight :
          client' = [client EXCEPT
                       !.detailInflight = RemoveAt(@, i),
                       !.fetching = @ \/ meta.status # client.detailInflight[i]]
    /\ UNCHANGED <<orch, meta, serverVars>>

\* ReviewDetail 191-193: the status request failed
DetailFails ==
    /\ \E i \in DOMAIN client.detailInflight :
          client' = [client EXCEPT !.detailInflight = RemoveAt(@, i)]
    /\ UNCHANGED <<orch, meta, serverVars>>

NextDetail ==
    /\ \/ SseOpen
       \/ SseMessage
       \/ SseError
       \/ PollTick
       \/ PollResponse
       \/ PollFails
       \/ CompleteTimerFires
       \/ TimePasses
       \/ JobStatusChanges
       \/ FetchResolves
       \/ FetchFails
       \/ DetailTick
       \/ DetailResponse
       \/ DetailFails
    /\ UNCHANGED <<timer, tokens>>

\* ReviewDetail 173-176, 290-296: the review was fetched while it was pending
\* or running
InitDetail ==
    /\ orch = OrchIdle
    /\ meta \in {[status |-> st, error |-> NoError] : st \in {"pending", "running"}}
    /\ ServerIdle
    /\ client = [ClientStart EXCEPT !.review = meta.status]
    /\ tokens = TokensIdle

SpecDetail == InitDetail /\ [][NextDetail]_vars

\* intervals fire, time passes, and requests are answered again and again
FairSpecDetail ==
    /\ SpecDetail
    /\ WF_vars(DetailTick /\ UNCHANGED <<timer, tokens>>)
    /\ SF_vars(DetailResponse /\ UNCHANGED <<timer, tokens>>)
    /\ SF_vars(FetchResolves /\ UNCHANGED <<timer, tokens>>)

(***************************************************************************)
(* Properties of the ProgressPanel inside ReviewDetail                     *)
(***************************************************************************)
\* C31: once a status response of the fallback polling showed the review
\* completed or failed, the panel has called onComplete and, for as long as
\* it stays mounted, sends no further status request.
C31_PollingStopsItself ==
    [][(client.mounted /\ client.completedByPoll /\ client'.mounted) =>
          client'.inflight <= client.inflight]_vars

\* the panel's polling saw the review completed or failed and called
\* onComplete, the parent's getReview is not answered yet, and the interval
\* has fired again: the next status request is on its way
C31_PolledAgain ==
    /\ client.mounted
    /\ client.completedByPoll
    /\ client.fetching
    /\ Terminal(meta.status)
    /\ client.inflight = 1
    /\ client.last = "tick"

\* ---------------------------------------------------------------------
\* C32: when the review is completed or failed, the parent eventually holds
\* the review with that status and the ProgressPanel is no longer mounted,
\* whatever the panel's EventSource delivers.
C32_TerminalLeavesProgressView ==
    Terminal(meta.status) ~> (client.review = meta.status /\ ~client.mounted)

\* the parent fetched the finished review and unmounted a panel that had
\* parsed no event, seen no error, sent no status request and called
\* onComplete neither from an event nor from a status response
C32_Witness ==
    /\ Terminal(meta.status)
    /\ client.review = meta.status
    /\ ~client.mounted
    /\ client.sseErrorCount = 0
    /\ ~client.sseConnected
    /\ ~client.fallbackPolling
    /\ ~client.polled
    /\ ~client.completedBySse
    /\ ~client.completedByPoll
    /\ client.completeTimer = NoTimer

\* ---------------------------------------------------------------------
\* C35: once the panel is unmounted no step calls onComplete: neither the
\* timeout that a complete event set nor the answer to a status request
\* that was in flight reaches the parent.
C35_NoSignalAfterUnmount ==
    [][~client.mounted =>
          /\ client'.completedBySse = client.completedBySse
          /\ client'.completedByPoll = client.completedByPoll
          /\ client'.fetching = client.fetching]_vars

\* the panel is unmounted and the timeout that a complete event set was not
\* cleared: it is due, and onComplete has not been called so far
C35_TimeoutSurvives ==
    /\ ~client.mounted
    /\ client.last = "unmount"
    /\ client.completeTimer = 0
    /\ ~client.completedBySse
    /\ ~client.completedByPoll
    /\ ~client.fetching

(***************************************************************************)
(* SpecPanel: a mounted ProgressPanel and the phase, progress and complete *)
(* events of its stream, across reconnections of the EventSource.          *)
(***************************************************************************)
PhaseMsg(p, m) == [PhaseEv(p) EXCEPT !.message = m]

\* reviews.ts 205-213: the event the stream endpoint writes when it finds no
\* emitter
WaitingEv == PhaseMsg("understanding", "Waiting to start...")

\* index.ts 159-162 (emitPhase), 164-194 (emitProgress), 436-452, 507-508
PanelEvents ==
    {PhaseMsg(p, "phase message") : p \in Phases}
    \cup {WaitingEv}
    \cup StreamEvents

PanelMessage == Message(PanelEvents)

NextPanel ==
    /\ \/ SseOpen
       \/ PanelMessage
       \/ SseError
       \/ PollTick
       \/ PollResponse
       \/ PollFails
       \/ CompleteTimerFires
       \/ TimePasses
    /\ UNCHANGED <<timer, tokens>>

SpecPanel == InitClient /\ [][NextPanel]_vars

ActivePhases(cl) == {p \in Phases : cl.phases[p].status = "active"}

\* ---------------------------------------------------------------------
\* C33: at most one phase of the panel's list is active.
C33_OneActivePhase == Cardinality(ActivePhases(client)) <= 1

\* the panel showed the analysis when its stream reconnected and the
\* endpoint, finding no emitter, wrote its waiting event
C33_TwoActive ==
    /\ client.mounted
    /\ client.last = "event"
    /\ client.phases["understanding"] =
          [status |-> "active", message |-> WaitingEv.message]
    /\ client.phases["analyzing"].status = "active"
    /\ client.sseErrorCount = 0

\* ---------------------------------------------------------------------
\* C38: a phase event for p makes p active with the event's message, makes
\* every phase before p completed, and leaves the status of every phase
\* after p as it was.
C38_PhaseEventApplied ==
    \A ev \in {e \in PanelEvents : e.type = "phase"} :
       LET cl == handleEvent(client, ev)
       IN  \A q \in Phases :
              /\ q = ev.phase =>
                    cl.phases[q] = [status |-> "active", message |-> ev.message]
              /\ PhaseIdx(q) < PhaseIdx(ev.phase) =>
                    cl.phases[q].status = "completed"
              /\ PhaseIdx(q) > PhaseIdx(ev.phase) =>
                    cl.phases[q].status = client.phases[q].status

\* an exploring event arrived after the analysis was shown: understanding is
\* completed, exploring active with the event's message, analyzing still
\* active and synthesizing still pending
C38_Witness ==
    /\ client.last = "event"
    /\ client.phases["understanding"].status = "completed"
    /\ client.phases["exploring"] = [status |-> "active", message |-> "phase message"]
    /\ client.phases["analyzing"].status = "active"
    /\ client.phases["synthesizing"].status = "pending"

\* ---------------------------------------------------------------------
\* C39: a complete event with status completed sets the percent to 100 and
\* every phase to completed, one with status error leaves percent and phases
\* as they are, and either sets the timeout of COMPLETE_DELAY_MS; onComplete
\* is called from it when that time has passed, and once: the timeout only
\* counts down, a due one is not lost, and firing clears it.
C39_CompleteHandled ==
    [][/\ client.readyState = "OPEN" =>
             LET done == onEvent(client, CompleteEv("completed", "Review complete"))
                 failed == onEvent(client, CompleteEv("error", "boom"))
             IN  /\ done.percent = 100
                 /\ \A p \in Phases : done.phases[p].status = "completed"
                 /\ done.completeTimer = COMPLETE_DELAY_MS
                 /\ failed.percent = client.percent
                 /\ failed.phases = client.phases
                 /\ failed.completeTimer = COMPLETE_DELAY_MS
       /\ (client'.completedBySse /\ ~client.completedBySse) =>
             client.completeTimer = 0 /\ client'.completeTimer = NoTimer
       /\ client.completeTimer = 0 =>
             \/ client'.completeTimer = 0 /\ client'.completedBySse = client.completedBySse
             \/ client'.completeTimer = NoTimer /\ client'.completedBySse
       /\ client.completeTimer > 0 =>
             client'.completeTimer \in 0..client.completeTimer]_vars

\* the complete event of a finished review arrived while the exploration
\* was shown at 50 percent, and onComplete was called when the delay had
\* passed
C39_Witness ==
    /\ client.mounted
    /\ client.completedBySse
    /\ client.completeTimer = NoTimer
    /\ client.percent = 100
    /\ \A p \in Phases : client.phases[p].status = "completed"
    /\ client.phases["exploring"].message = "phase message"
    /\ client.progressMessage = "Review complete!"

(***************************************************************************)
(* SpecFeed: a mounted ProgressPanel and the subagent and activity events  *)
(* of its stream.  Each subtask of the run is announced by a started event *)
(* and finished by a completed event; the first two subtasks are explorers *)
(* that were delegated with the same description.  An activity event       *)
(* carries its position among the activity events as its timestamp.        *)
(***************************************************************************)
DescriptionOf(k) == IF k <= 2 THEN "Explore the repository" ELSE "Explore the tests"

\* index.ts 298-305, 330-334, 403-407: the subagent events of subtask k
SubagentMsg(k, st) ==
    [SubagentEv("codebase-explorer", st) EXCEPT !.description = DescriptionOf(k),
                                                !.key = k]

\* index.ts 359-369: the next activity event
ActivityMsg(n) == [ActivityEv("codebase-explorer", 1) EXCEPT !.t = n]

\* the events the stream can deliver next
FeedEvents ==
    {SubagentMsg(k, "started") : k \in {j \in Subtasks : client.delivered.subtasks[j] = "none"}}
    \cup {SubagentMsg(k, "completed") :
             k \in {j \in Subtasks : client.delivered.subtasks[j] = "started"}}
    \cup (IF client.delivered.activities < MaxStamp
          THEN {ActivityMsg(client.delivered.activities + 1)}
          ELSE {})
    \cup {ProgressEv(50)}

Deliver(cl, ev) ==
    CASE ev.type = "subagent" -> [cl EXCEPT !.delivered.subtasks[ev.key] = ev.status]
      [] ev.type = "activity" -> [cl EXCEPT !.delivered.activities = ev.t]
      [] OTHER -> cl

\* client.ts 200-203: an event of the feed arrives
FeedMessage ==
    /\ client.readyState = "OPEN"
    /\ \E ev \in FeedEvents :
          client' = Deliver(fallbackEffect(client, onEvent(client, ev)), ev)
    /\ UNCHANGED <<orch, meta, serverVars>>

NextFeed ==
    /\ \/ SseOpen
       \/ FeedMessage
    /\ UNCHANGED <<timer, tokens>>

SpecFeed == InitClient /\ [][NextFeed]_vars

CompletedEntries(cl) == {i \in DOMAIN cl.subagents : cl.subagents[i].status = "completed"}
CompletedSubtasks(cl) == {k \in Subtasks : cl.delivered.subtasks[k] = "completed"}

\* ---------------------------------------------------------------------
\* C34: an entry of the subtask list that is completed stays completed, and
\* the list shows as many completed entries as there are subtasks whose
\* completed event was delivered.
C34_CompletedStaysAndCounts ==
    [][/\ \A i \in CompletedEntries(client) :
             i \in DOMAIN client'.subagents => client'.subagents[i].status = "completed"
       /\ Cardinality(CompletedEntries(client')) = Cardinality(CompletedSubtasks(client'))]_vars

\* the first explorer has completed and the second one, delegated with the
\* same description, has started: the list holds one entry, and it is back
\* to started
C34_BackToStarted ==
    /\ client.delivered.subtasks[1] = "completed"
    /\ client.delivered.subtasks[2] = "started"
    /\ client.delivered.subtasks[3] = "none"
    /\ client.subagents =
          <<[agentType |-> "codebase-explorer", description |-> DescriptionOf(1),
             status |-> "started"]>>

\* ---------------------------------------------------------------------
\* C40: the activity log holds at most MAX_ACTIVITIES entries, and they are
\* the latest activity events delivered, in the order of their arrival.
C40_ActivityLogRolls ==
    LET n == Len(client.activities)
        d == client.delivered.activities
    IN  /\ n <= MAX_ACTIVITIES
        /\ n = IF d < MAX_ACTIVITIES THEN d ELSE MAX_ACTIVITIES
        /\ \A i \in 1..n : client.activities[i].timestamp = d - n + i

\* two more activity events than the log holds were delivered: the log
\* starts with the third
C40_Witness ==
    /\ client.delivered.activities = MAX_ACTIVITIES + 2
    /\ Len(client.activities) = MAX_ACTIVITIES
    /\ client.activities[1].timestamp = 3
    /\ client.activities[MAX_ACTIVITIES].timestamp = MAX_ACTIVITIES + 2

====
